---- MODULE Spec2Model ----
(***************************************************************************)
(* Elastic replan pipeline of the travel orchestrator                      *)
(* (backend/engine/elastic_replan.py, backend/engine/routing_solver.py).   *)
(*                                                                         *)
(* One replan request is followed from its arrival through the stages of   *)
(* replan_itinerary to the returned result or the raised HTTP error.  A    *)
(* returned itinerary may be submitted again with a new disruption.        *)
(*                                                                         *)
(* Conventions.  Python lists are sequences; a Python index i is position  *)
(* i + 1 of the sequence.  Python None and the empty string are both the   *)
(* empty string (the code only tests them for truthiness); a solver        *)
(* result of None is the empty sequence.  Instants are counted in ticks    *)
(* of 1 / TicksPerSec seconds; an ISO-8601 string that does not parse is   *)
(* an instant whose field parse is "bad".  Stop objects are shared by      *)
(* reference between itin.stops, active_stops, stops_to_route and          *)
(* dropped_stops, so those lists hold positions of itin.stops.             *)
(***************************************************************************)
EXTENDS Integers, Sequences, FiniteSets, TLC

VARIABLES
    pc,             \* position of the request in replan_itinerary
    req,            \* req.itinerary, the object the caller handed in
    input0,         \* value of req.itinerary when the call started
    event,          \* req.disruption
    itin,           \* the working itinerary the stages mutate
    itinRef,        \* which object itin is: a fresh copy or req.itinerary
    stops_to_route, \* routing set, positions of itin.stops
    activeIn,       \* active_stops as selected in step 2
    pendingAfter1,  \* PENDING stops counted when step 1 ended, -1 before
    c_mx,           \* cost matrix, shrunk by the drop loop
    t_mx,           \* time matrix, shrunk by the drop loop
    leg_details,    \* detail map returned by fetch_alternatives
    deadline_sec,   \* deadline budget in seconds
    dropped_stops,  \* positions of itin.stops collected as dropped
    loopDropped,    \* positions dropped by the step-5 loop of this request
    route_indices,  \* route returned by a solver, <<>> when none
    routeBy,        \* which solver returned route_indices
    iteration,      \* rounds of the drop loop started
    clock,          \* wall clock in ticks
    nowDeadline,    \* clock value read when the deadline budget was computed
    queries,        \* route queries issued for this request
    solverRuns,     \* solver invocations for this request
    result,         \* the returned value ("none" while there is none)
    replans,        \* successful replans of the chain so far
    call,           \* a direct call of solve_vrptw and greedy_fallback
    fan,            \* a call of fetch_alternatives and its queries in flight
    friction,       \* a process using friction_model.py: _model, the artifact
    store,          \* the session store and the handlers of api/routes.py
    earlier         \* result of the same request processed before

vars == <<pc, req, input0, event, itin, itinRef, stops_to_route, activeIn,
          pendingAfter1, c_mx, t_mx, leg_details, deadline_sec, dropped_stops,
          loopDropped, route_indices, routeBy, iteration, clock, nowDeadline, queries, solverRuns, result,
          replans, call, fan, friction, store, earlier>>

\* what the stages of replan_itinerary never touch
sideVars == <<call, fan, friction, store, earlier>>

-----------------------------------------------------------------------------
(* Bounds of the model *)

MaxStops == 3
\* stops in a direct call of the solvers
MaxSolverStops == 4
MaxReplans == 2
StopSpacingM == 50

(* Program constants *)

TicksPerSec == 2
DEMO_SESSION == "demo-maya-001"
DEMO_MODE == TRUE
FallbackDeadlineSec == 3600
MockMinDurationSec == 60
SecPerMinute == 60
DemoEbikeCost == 500
DemoEbikeDuration == 1200
DemoRideshareCost == 750
DemoRideshareDuration == 1500
DemoEtaDelta == 5

-----------------------------------------------------------------------------
(* Generic helpers *)

Range(s) == {s[i] : i \in 1..Len(s)}

Max2(a, b) == IF a >= b THEN a ELSE b

RECURSIVE SumSeq(_)
SumSeq(s) == IF s = <<>> THEN 0 ELSE Head(s) + SumSeq(Tail(s))

\* list without the element at Python index k
RemoveAt(s, k) == SubSeq(s, 1, k) \o SubSeq(s, k + 2, Len(s))

\* s filtered by a set of admitted values, order kept
RECURSIVE FilterSeq(_, _)
FilterSeq(s, keep) ==
    IF s = <<>> THEN <<>>
    ELSE IF Head(s) \in keep THEN <<Head(s)>> \o FilterSeq(Tail(s), keep)
         ELSE FilterSeq(Tail(s), keep)

\* Python int() of a quotient: truncation toward zero
TruncDiv(a, b) == IF a >= 0 THEN a \div b ELSE -((-a) \div b)

-----------------------------------------------------------------------------
(* Data model *)

Instant(t) == [parse |-> "ok", ticks |-> t]
BadInstant == [parse |-> "bad", ticks |-> 0]
\* an ISO timestamp without time zone: fromisoformat returns a naive datetime
NaiveInstant(t) == [parse |-> "naive", ticks |-> t]

StopId(i) ==
    CASE i = 1 -> "home"
      [] i = 2 -> "farmers-market"
      [] i = 3 -> "art-museum"
      [] i = 4 -> "rooftop-bar"
      [] OTHER -> "stop-5"

Stop(id, priority, status, dropReason) ==
    [id |-> id, priority |-> priority, status |-> status,
     dropReason |-> dropReason]

\* A polyline is a sequence of strings: empty for None and for the empty
\* string, <<text>> for an encoded path written out in the source (text is
\* the letters and digits of the encoded path, in order), and <<a, b>> for
\* the path an upstream answer draws from stop a to stop b.
\* frictionScore and frictionLevel of a leg are not carried.
Leg(from, to, mode, cost, dur, avail) ==
    [fromStopId |-> from, toStopId |-> to, mode |-> mode, costCents |-> cost,
     durationSec |-> dur, available |-> avail, polyline |-> <<>>]

\* a leg with an encoded path
DrawnLeg(from, to, mode, cost, dur, avail, polyline) ==
    [Leg(from, to, mode, cost, dur, avail) EXCEPT !.polyline = <<polyline>>]

DisruptionEvent(id, type, severity, modes, routes, stopId, delay) ==
    [id |-> id, type |-> type, severity |-> severity, affectedModes |-> modes,
     affectedRoutes |-> routes, affectedStopId |-> stopId,
     delayMinutes |-> delay]

StopIds(it) == {it.stops[i].id : i \in 1..Len(it.stops)}

-----------------------------------------------------------------------------
(* Step 1: apply_disruption *)

\* the loop body of the TRANSIT_DELAY / LINE_CANCELLATION branch for one leg
DisruptLeg(leg, ev) ==
    LET byMode == IF leg.mode \in ev.affectedModes THEN FALSE
                  ELSE leg.available
        route_key == <<leg.fromStopId, leg.toStopId>>
        byRoute == IF ev.affectedRoutes # {} /\ route_key \in ev.affectedRoutes
                   THEN FALSE ELSE byMode
        dur == IF /\ ev.type = "TRANSIT_DELAY"
                  /\ ev.delayMinutes # 0
                  /\ leg.mode \in ev.affectedModes
                  /\ byRoute
               THEN leg.durationSec + ev.delayMinutes * SecPerMinute
               ELSE leg.durationSec
    IN  [leg EXCEPT !.available = byRoute, !.durationSec = dur]

\* VenueClosedReason leaving the reason unset
VenueClosedReasonUnset(ev) == ""

VenueClosedReason(ev) == "Venue closed (disruption " \o ev.id \o ")"

apply_disruption(it, ev) ==
    CASE ev.type \in {"TRANSIT_DELAY", "LINE_CANCELLATION"} ->
           [it EXCEPT !.legs = [k \in 1..Len(it.legs) |->
                                    DisruptLeg(it.legs[k], ev)]]
      [] ev.type = "VENUE_CLOSED" ->
           IF ev.affectedStopId = "" THEN it
           ELSE [it EXCEPT
                   !.stops = [k \in 1..Len(it.stops) |->
                       IF /\ it.stops[k].id = ev.affectedStopId
                          /\ it.stops[k].status = "PENDING"
                       THEN [it.stops[k] EXCEPT
                               !.status = "DROPPED",
                               !.dropReason = VenueClosedReason(ev)]
                       ELSE it.stops[k]],
                   !.legs = [k \in 1..Len(it.legs) |->
                       IF \/ it.legs[k].fromStopId = ev.affectedStopId
                          \/ it.legs[k].toStopId = ev.affectedStopId
                       THEN [it.legs[k] EXCEPT !.available = FALSE]
                       ELSE it.legs[k]]]
      [] ev.type = "WEATHER" ->
           IF ev.severity \in {"MAJOR", "CRITICAL"}
           THEN [it EXCEPT !.legs = [k \in 1..Len(it.legs) |->
                    IF it.legs[k].mode \in {"WALKING", "EBIKE"}
                    THEN [it.legs[k] EXCEPT !.available = FALSE]
                    ELSE it.legs[k]]]
           ELSE it
      [] OTHER -> it

-----------------------------------------------------------------------------
(* routing_solver.py: solve_vrptw *)

Nodes(n) == 0..(n - 1)

\* matrix entry at Python indices [i][j]
At(m, i, j) == m[i + 1][j + 1]

\* Values of the Booleans x[i, j] allowed by the two AddExactlyOne
\* constraints per node: s[i] = j stands for x[i, j] = 1.
FlowAssignmentsOf ==
    [n \in 2..Max2(Max2(MaxStops, MaxSolverStops), 5) |->
        {s \in [Nodes(n) -> Nodes(n)] :
            /\ \A i \in Nodes(n) : s[i] # i
            /\ \A j \in Nodes(n) :
                  Cardinality({i \in Nodes(n) : s[i] = j}) = 1}]

FlowAssignments(n) == FlowAssignmentsOf[n]

\* One round of propagation of the constraints t[start] == 0 and, for every
\* chosen edge i -> j, t[j] >= t[i] + time[i][j], over lower bounds t.
Propagate(n, s, time_matrix, start_index, t) ==
    [j \in Nodes(n) |->
        IF j = start_index THEN 0
        ELSE LET i == CHOOSE i \in Nodes(n) : s[i] = j
             IN  Max2(t[j], t[i] + At(time_matrix, i, j))]

RECURSIVE PropagateTimes(_, _, _, _, _, _)
PropagateTimes(n, s, time_matrix, start_index, t, rounds) ==
    IF rounds = 0 THEN t
    ELSE LET next == Propagate(n, s, time_matrix, start_index, t)
         IN  IF next = t THEN t
             ELSE PropagateTimes(n, s, time_matrix, start_index, next,
                                 rounds - 1)

AssignmentTime(n, s, time_matrix) ==
    SumSeq([k \in 1..n |-> At(time_matrix, k - 1, s[k - 1])])

\* TimeFeasible asking only that the travel times add up within the deadline
TimeFeasibleBySum(n, s, time_matrix, deadline_seconds, start_index) ==
    AssignmentTime(n, s, time_matrix) <= deadline_seconds

\* The arrival times t[i] in 0..deadline_seconds with t[start] == 0 and
\* t[j] >= t[i] + time[i][j] on every chosen edge exist exactly when the least
\* lower bounds, reached after n rounds of propagation from 0, satisfy them.
TimeFeasible(n, s, time_matrix, deadline_seconds, start_index) ==
    LET t == PropagateTimes(n, s, time_matrix, start_index,
                            [i \in Nodes(n) |-> 0], n)
    IN  /\ \A i \in Nodes(n) : 0 <= t[i] /\ t[i] <= deadline_seconds
        /\ t[start_index] = 0
        /\ \A i \in Nodes(n) : t[s[i]] >= t[i] + At(time_matrix, i, s[i])

AssignmentCost(n, s, cost_matrix) ==
    SumSeq([k \in 1..n |-> At(cost_matrix, k - 1, s[k - 1])])

\* FeasibleAssignments without the budget constraint
FeasibleAssignmentsNoBudget(n, cost_matrix, time_matrix, budget_cents, deadline_seconds, start_index) ==
    {s \in FlowAssignments(n) :
        TimeFeasible(n, s, time_matrix, deadline_seconds, start_index)}

FeasibleAssignments(n, cost_matrix, time_matrix, budget_cents, deadline_seconds, start_index) ==
    {s \in FlowAssignments(n) :
        /\ AssignmentCost(n, s, cost_matrix) <= budget_cents
        /\ TimeFeasible(n, s, time_matrix, deadline_seconds, start_index)}

\* route reconstruction: follow the chosen edge until start would be re-entered
RECURSIVE WalkRoute(_, _, _, _)
WalkRoute(s, start_index, curr, route) ==
    IF s[curr] = start_index THEN route
    ELSE WalkRoute(s, start_index, s[curr], Append(route, s[curr]))

ReconstructRoute(s, start_index) ==
    WalkRoute(s, start_index, start_index, <<start_index>>)

\* The values solve_vrptw can return: None (infeasible, or the time limit
\* hit before a solution), or the route of the assignment the solver ends
\* with.  With times >= 0 the constraints force every chosen edge to have
\* time 0, so every feasible assignment has the minimal objective 0.
solve_vrptw(n, cost_matrix, time_matrix, budget_cents, deadline_seconds, start_index) ==
    IF n <= 1 THEN {<<0>>}
    ELSE {ReconstructRoute(s, start_index) :
            s \in FeasibleAssignments(n, cost_matrix, time_matrix,
                                      budget_cents, deadline_seconds,
                                      start_index)}
         \cup {<<>>}

-----------------------------------------------------------------------------
(* routing_solver.py: greedy_fallback *)

\* GreedyCandidates with the budget test strict
GreedyCandidatesStrict(n, cost_matrix, time_matrix, budget_cents, deadline_seconds, visited, curr, curr_cost, curr_time) ==
    {j \in Nodes(n) \ visited :
        /\ curr_cost + At(cost_matrix, curr, j) < budget_cents
        /\ curr_time + At(time_matrix, curr, j) <= deadline_seconds}

\* admissible unvisited indices from curr
GreedyCandidates(n, cost_matrix, time_matrix, budget_cents, deadline_seconds, visited, curr, curr_cost, curr_time) ==
    {j \in Nodes(n) \ visited :
        /\ curr_cost + At(cost_matrix, curr, j) <= budget_cents
        /\ curr_time + At(time_matrix, curr, j) <= deadline_seconds}

\* GreedyBest keeping the highest index on ties
GreedyBestLastOnTies(time_matrix, cands, curr) ==
    CHOOSE j \in cands :
        \A k \in cands :
            \/ At(time_matrix, curr, j) < At(time_matrix, curr, k)
            \/ At(time_matrix, curr, j) = At(time_matrix, curr, k) /\ j >= k

\* the index kept by the scan: least time, lowest index on ties
GreedyBest(time_matrix, cands, curr) ==
    CHOOSE j \in cands :
        \A k \in cands :
            \/ At(time_matrix, curr, j) < At(time_matrix, curr, k)
            \/ At(time_matrix, curr, j) = At(time_matrix, curr, k) /\ j <= k

\* GreedyWalk returning the open path, no return to start required
RECURSIVE GreedyWalkOpen(_, _, _, _, _, _, _, _, _)
GreedyWalkOpen(n, cost_matrix, time_matrix, budget_cents, deadline_seconds, start_index, route, curr_cost, curr_time) ==
    LET curr == route[Len(route)]
        visited == Range(route)
        cands == GreedyCandidates(n, cost_matrix, time_matrix, budget_cents,
                                  deadline_seconds, visited, curr, curr_cost,
                                  curr_time)
    IN  IF Cardinality(visited) >= n THEN route
        ELSE IF cands = {} THEN <<>>
        ELSE LET best_j == GreedyBest(time_matrix, cands, curr)
             IN  GreedyWalkOpen(n, cost_matrix, time_matrix, budget_cents,
                                deadline_seconds, start_index,
                                Append(route, best_j),
                                curr_cost + At(cost_matrix, curr, best_j),
                                curr_time + At(time_matrix, curr, best_j))

RECURSIVE GreedyWalk(_, _, _, _, _, _, _, _, _)
GreedyWalk(n, cost_matrix, time_matrix, budget_cents, deadline_seconds, start_index, route, curr_cost, curr_time) ==
    LET curr == route[Len(route)]
        visited == Range(route)
        cands == GreedyCandidates(n, cost_matrix, time_matrix, budget_cents,
                                  deadline_seconds, visited, curr, curr_cost,
                                  curr_time)
    IN  IF Cardinality(visited) >= n
        THEN \* "Add return to start"
             IF /\ curr_cost + At(cost_matrix, curr, start_index)
                      <= budget_cents
                /\ curr_time + At(time_matrix, curr, start_index)
                      <= deadline_seconds
             THEN route ELSE <<>>
        ELSE IF cands = {} THEN <<>>
        ELSE LET best_j == GreedyBest(time_matrix, cands, curr)
             IN  GreedyWalk(n, cost_matrix, time_matrix, budget_cents,
                            deadline_seconds, start_index,
                            Append(route, best_j),
                            curr_cost + At(cost_matrix, curr, best_j),
                            curr_time + At(time_matrix, curr, best_j))

greedy_fallback(n, cost_matrix, time_matrix, budget_cents, deadline_seconds, start_index) ==
    GreedyWalk(n, cost_matrix, time_matrix, budget_cents, deadline_seconds,
               start_index, <<start_index>>, 0, 0)

-----------------------------------------------------------------------------
(* Step 5: drop_lowest_priority *)

\* DropIndex without the NICE_TO_HAVE pass
DropIndexLast(itStops, stops) ==
    IF Len(stops) - 1 >= 1 THEN Len(stops) - 1 ELSE -1

\* Python index chosen by the two passes, -1 when nothing is droppable;
\* stops is the routing set as positions of itStops
DropIndex(itStops, stops) ==
    LET nice == {i \in 1..(Len(stops) - 1) :
                    itStops[stops[i + 1]].priority = "NICE_TO_HAVE"}
    IN  IF nice # {} THEN CHOOSE i \in nice : \A k \in nice : k <= i
        ELSE IF Len(stops) - 1 >= 1 THEN Len(stops) - 1
        ELSE -1

DropReason == "Removed to satisfy budget/time constraints"

\* ShrinkMatrix deleting the row of the stop but the last column
ShrinkMatrixLastColumn(m, drop_idx) ==
    LET rows == RemoveAt(m, drop_idx)
    IN  [k \in 1..Len(rows) |-> RemoveAt(rows[k], Len(rows[k]) - 1)]

ShrinkMatrix(m, drop_idx) ==
    LET rows == RemoveAt(m, drop_idx)
    IN  [k \in 1..Len(rows) |-> RemoveAt(rows[k], drop_idx)]

\* returns (dropped position or 0, stops of the itinerary, remaining routing
\* set, shrunk cost matrix, shrunk time matrix)
drop_lowest_priority(itStops, stops, cost_matrix, time_matrix) ==
    LET drop_idx == DropIndex(itStops, stops)
    IN  IF drop_idx = -1
        THEN [dropped |-> 0, itStops |-> itStops, stops |-> stops,
              cost_matrix |-> cost_matrix, time_matrix |-> time_matrix]
        ELSE LET pos == stops[drop_idx + 1]
             IN  [dropped |-> pos,
                  itStops |-> [itStops EXCEPT
                                 ![pos].status = "DROPPED",
                                 ![pos].dropReason = DropReason],
                  stops |-> RemoveAt(stops, drop_idx),
                  cost_matrix |-> ShrinkMatrix(cost_matrix, drop_idx),
                  time_matrix |-> ShrinkMatrix(time_matrix, drop_idx)]

-----------------------------------------------------------------------------
(* Step 2: the route oracle and fetch_alternatives *)

\* speed_map in decimetres per second, cost_per_m in thousandths of a cent
SpeedDmPerSec(mode) ==
    CASE mode = "WALKING" -> 14
      [] mode = "TRANSIT" -> 120
      [] mode = "EBIKE" -> 55
      [] mode = "RIDESHARE" -> 100
      [] OTHER -> 50

CostMilliCentsPerM(mode) ==
    CASE mode = "WALKING" -> 0
      [] mode = "TRANSIT" -> 3
      [] mode = "EBIKE" -> 5
      [] mode = "RIDESHARE" -> 12
      [] OTHER -> 5

\* straight-line distance in metres between two stops of the model: every
\* two distinct stops lie StopSpacingM apart
dist_m(origin, dest) == IF origin = dest THEN 0 ELSE StopSpacingM

_mock_leg_data(origin, dest, mode) ==
    [costCents |-> Max2(0, (dist_m(origin, dest) * CostMilliCentsPerM(mode))
                             \div 1000),
     durationSec |-> Max2(MockMinDurationSec,
                          (dist_m(origin, dest) * 10) \div SpeedDmPerSec(mode))]

\* what an upstream provider can answer for a pair
UpstreamResults == {[costCents |-> 1, durationSec |-> 0]}

\* modes whose query goes to an upstream before falling back: the transit
\* and e-bike providers always, the OSRM service only when DEMO_MODE is off
AsksUpstream(mode) == mode \in {"TRANSIT", "EBIKE"} \/ ~DEMO_MODE

\* mode chosen for every pair
FanOutMode(preferred_modes) ==
    IF preferred_modes # <<>> THEN preferred_modes[1] ELSE "WALKING"

OrderedPairs(n) == {p \in Nodes(n) \X Nodes(n) : p[1] # p[2]}

\* the queries between the two stops of a link, one per direction
LinkQueries(links) == {p \in UNION {l \X l : l \in links} : p[1] # p[2]}

Links(n) == {l \in SUBSET Nodes(n) : Cardinality(l) = 2}

\* the sets of links (pairs of stops) the upstream answers in one fan-out:
\* none, the two queries of one link, or those of two links apart that
\* cover all the stops between them
UpstreamLinkSets(n) ==
    {{}} \cup {{l} : l \in Links(n)}
         \cup {{l, m} : <<l, m>> \in {lm \in Links(n) \X Links(n) :
                                          /\ lm[1] \cap lm[2] = {}
                                          /\ lm[1] \cup lm[2] = Nodes(n)}}

\* The answers the fan-out can collect: the upstream answers the queries of
\* the links of one such set, every other query falls back to _mock_leg_data.
FanOutAnswers(n, mode) ==
    IF AsksUpstream(mode)
    THEN UNION {[LinkQueries(links) -> UpstreamResults] :
                  links \in UpstreamLinkSets(n)}
    ELSE {<<>>}

\* result of the query for pair (i, j) given the upstream answers
QueryResult(active_ids, mode, answers, i, j) ==
    IF <<i, j>> \in DOMAIN answers THEN answers[<<i, j>>]
    ELSE _mock_leg_data(active_ids[i + 1], active_ids[j + 1], mode)

\* the geometry of a result: the path an upstream answer draws between the
\* two stops it was asked about, the empty string of a fallback result
Polyline(active_ids, answers, i, j) ==
    IF <<i, j>> \in DOMAIN answers
    THEN <<active_ids[i + 1], active_ids[j + 1]>>
    ELSE <<>>

\* leg_details[(i, j)] = {**result, "mode": mode}
LegDetails(active_ids, mode, answers) ==
    [p \in OrderedPairs(Len(active_ids)) |->
        [costCents |-> QueryResult(active_ids, mode, answers,
                                   p[1], p[2]).costCents,
         durationSec |-> QueryResult(active_ids, mode, answers,
                                     p[1], p[2]).durationSec,
         polyline |-> Polyline(active_ids, answers, p[1], p[2]),
         mode |-> mode]]

cost_matrix(active_ids, mode, answers) ==
    [a \in 1..Len(active_ids) |-> [b \in 1..Len(active_ids) |->
        IF a = b THEN 0
        ELSE QueryResult(active_ids, mode, answers, a - 1, b - 1).costCents]]

time_matrix(active_ids, mode, answers) ==
    [a \in 1..Len(active_ids) |-> [b \in 1..Len(active_ids) |->
        IF a = b THEN 0
        ELSE QueryResult(active_ids, mode, answers, a - 1, b - 1).durationSec]]

-----------------------------------------------------------------------------
(* replan_itinerary: helpers of the stages *)

\* no copy: the working itinerary is the request's own object
model_copy_alias == "req"

\* req.itinerary.model_copy(deep=True): the working itinerary is a new object
model_copy_deep == "copy"

\* the request's itinerary after the working itinerary became newItin
ThroughAlias(newItin) == IF itinRef = "req" THEN newItin ELSE req

IsDemoBypass(it, ev) == it.id = DEMO_SESSION /\ ev.type = "LINE_CANCELLATION"

\* TooFewActive with the threshold off by one
TooFewActiveOffByOne(active_stops) == Len(active_stops) < 3

\* the test of step 2: fewer than two active stops
TooFewActive(active_stops) == Len(active_stops) < 2

\* BumpVersion keeping the version
BumpVersionKept(version) == version

\* new_itin.version += 1
BumpVersion(version) == version + 1

\* ActiveStops taking every stop that is not DROPPED
ActiveStopsNotDropped(it) ==
    FilterSeq([k \in 1..Len(it.stops) |-> k],
              {k \in 1..Len(it.stops) : it.stops[k].status # "DROPPED"})

\* positions of the stops with status PENDING, in order
ActiveStops(it) ==
    FilterSeq([k \in 1..Len(it.stops) |-> k],
              {k \in 1..Len(it.stops) : it.stops[k].status = "PENDING"})

\* stops already dropped, with a reason, when the loop starts
\* AlreadyDropped forgetting the stops step 1 dropped
AlreadyDroppedNone(it) == <<>>

AlreadyDropped(it) ==
    FilterSeq([k \in 1..Len(it.stops) |-> k],
              {k \in 1..Len(it.stops) :
                  it.stops[k].status = "DROPPED" /\ it.stops[k].dropReason # ""})

\* deadline_dt - now with a naive deadline_dt and the aware now raises
\* TypeError, which the except ValueError clause does not catch
DeadlineRaises(returnDeadline) == returnDeadline.parse = "naive"

DeadlineSec(returnDeadline, now) ==
    IF DeadlineRaises(returnDeadline) THEN "TypeError"
    ELSE IF returnDeadline.parse = "ok"
         THEN Max2(1, TruncDiv(returnDeadline.ticks - now, TicksPerSec))
         ELSE FallbackDeadlineSec

\* key of the detail map looked up for the k-th leg: (idx_from, idx_to)
DetailIndex(stops, route, k) == <<route[k], route[k + 1]>>

\* legs of the solved route
BuildLegs(it, stops, route, cmx, tmx, details) ==
    [k \in 1..(Len(route) - 1) |->
        LET idx == DetailIndex(stops, route, k)
            found == idx \in DOMAIN details
        IN  [Leg(it.stops[stops[route[k] + 1]].id,
                 it.stops[stops[route[k + 1] + 1]].id,
                 IF found THEN details[idx].mode
                 ELSE FanOutMode(it.user.preferredModes),
                 At(cmx, route[k], route[k + 1]),
                 At(tmx, route[k], route[k + 1]),
                 TRUE)
             EXCEPT !.polyline = IF found THEN details[idx].polyline
                                  ELSE <<>>]]

\* old_leg_map: the last leg of the old itinerary with the given endpoints
HasOldLeg(old, leg) ==
    \E k \in 1..Len(old.legs) :
        /\ old.legs[k].fromStopId = leg.fromStopId
        /\ old.legs[k].toStopId = leg.toStopId

OldLeg(old, leg) ==
    LET ks == {k \in 1..Len(old.legs) :
                  /\ old.legs[k].fromStopId = leg.fromStopId
                  /\ old.legs[k].toStopId = leg.toStopId}
    IN  old.legs[CHOOSE k \in ks : \A m \in ks : m <= k]

\* LegDiffers comparing cost and duration only
LegDiffersNoMode(a, b) ==
    \/ a.costCents # b.costCents
    \/ a.durationSec # b.durationSec

LegDiffers(a, b) ==
    \/ a.costCents # b.costCents
    \/ a.durationSec # b.durationSec
    \/ a.mode # b.mode

ChangedLegs(old, new_legs) ==
    FilterSeq(new_legs,
              {l \in Range(new_legs) :
                  HasOldLeg(old, l) /\ LegDiffers(OldLeg(old, l), l)})

TrulyNewLegs(old, new_legs) ==
    FilterSeq(new_legs, {l \in Range(new_legs) : ~HasOldLeg(old, l)})

\* new_eta_dt - old_eta_dt with a naive old_eta_dt and the aware new_eta_dt
\* raises TypeError, which the except ValueError clause does not catch
EtaRaises(old_eta) == old_eta.parse = "naive"

EtaDeltaSec(old_eta, new_eta_ticks, now_ticks) ==
    IF EtaRaises(old_eta) THEN "TypeError"
    ELSE LET old_ticks == IF old_eta.parse = "ok" THEN old_eta.ticks
                          ELSE now_ticks
         IN  TruncDiv(new_eta_ticks - old_ticks, TicksPerSec)

\* ReflectDrops deleting the dropped stops from the list
ReflectDropsDeleting(stops, dropped) ==
    FilterSeq(stops, {st \in Range(stops) :
                        \A d \in Range(dropped) : stops[d].id # st.id})

\* "Reflect drops on stop list"
ReflectDrops(stops, dropped) ==
    [k \in 1..Len(stops) |->
        IF \E d \in Range(dropped) : stops[d].id = stops[k].id
        THEN LET ds == {i \in 1..Len(dropped) :
                           stops[dropped[i]].id = stops[k].id}
                 first == dropped[CHOOSE i \in ds : \A m \in ds : i <= m]
             IN  [stops[k] EXCEPT !.status = "DROPPED",
                                  !.dropReason = stops[first].dropReason]
        ELSE stops[k]]

SolverTag(route) == IF route # <<>> THEN "OR_TOOLS" ELSE "GREEDY"

\* steps 5.5 to 7 for a solved route, assembled at instant now_utc
AssembleResult(old, it, stops, dropped, route, cmx, tmx, details, now_utc) ==
    LET new_legs == BuildLegs(it, stops, route, cmx, tmx, details)
        total_new_cost == SumSeq([k \in 1..Len(new_legs) |->
                                     new_legs[k].costCents])
        total_new_duration == SumSeq([k \in 1..Len(new_legs) |->
                                         new_legs[k].durationSec])
        new_eta == now_utc + total_new_duration * TicksPerSec
        new_itin == [it EXCEPT
                       !.version = BumpVersion(it.version),
                       !.legs = new_legs,
                       !.totalCost = total_new_cost,
                       !.projectedETA = Instant(new_eta),
                       !.status = "REPLANNING",
                       !.stops = ReflectDrops(it.stops, dropped)]
    IN  [status |-> 200,
         itinerary |-> new_itin,
         diff |-> [droppedStops |-> [k \in 1..Len(dropped) |->
                                        it.stops[dropped[k]]],
                   newLegs |-> TrulyNewLegs(old, new_legs),
                   changedLegs |-> ChangedLegs(old, new_legs),
                   costDelta |-> total_new_cost - old.totalCost,
                   etaDelta |-> EtaDeltaSec(old.projectedETA, new_eta,
                                            now_utc)],
         meta |-> [solver |-> SolverTag(route),
                   stopsDropped |-> Len(dropped),
                   version |-> new_itin.version]]

HttpError(code, detail) == [status |-> code, detail |-> detail]

NoResult == [status |-> 0]

-----------------------------------------------------------------------------
(* hardcoded_maya_replan *)

DemoDropReason ==
    "Rooftop Bar removed - insufficient budget after e-bike reroute"

DemoStops(it) ==
    [k \in 1..Len(it.stops) |->
        IF it.stops[k].id = "rooftop-bar"
        THEN [it.stops[k] EXCEPT !.status = "DROPPED",
                                 !.dropReason = DemoDropReason]
        ELSE it.stops[k]]

DemoLegs(it) ==
    LET firsts == {k \in 1..Len(it.legs) :
                      /\ it.legs[k].fromStopId = "home"
                      /\ it.legs[k].toStopId = "farmers-market"}
        original_first_leg ==
            IF firsts = {} THEN <<>>
            ELSE <<it.legs[CHOOSE k \in firsts : \A m \in firsts : k <= m]>>
    IN  original_first_leg \o
        <<DrawnLeg("farmers-market", "art-museum", "EBIKE", DemoEbikeCost,
                   DemoEbikeDuration, TRUE,
                   "ierFachVcAeAkAyoAsqAisAuAOuAsAP"),
          DrawnLeg("art-museum", "home", "RIDESHARE", DemoRideshareCost,
                   DemoRideshareDuration, TRUE,
                   "qmrFtchVdBnCjBjCdBrBpAfBXrBJpBCnBQlB")>>

hardcoded_maya_replan(it) ==
    LET new_stops == DemoStops(it)
        new_legs == DemoLegs(it)
        total_cost == SumSeq([k \in 1..Len(new_legs) |->
                                 new_legs[k].costCents])
    IN  [status |-> 200,
         itinerary |-> [it EXCEPT
                          !.version = it.version + 1,
                          !.stops = new_stops,
                          !.legs = new_legs,
                          !.totalCost = total_cost,
                          !.projectedETA = BadInstant,
                          !.status = "ACTIVE"],
         diff |-> [droppedStops |->
                       FilterSeq(new_stops,
                                 {st \in Range(new_stops) :
                                     st.id = "rooftop-bar"}),
                   newLegs |-> SubSeq(new_legs, Len(new_legs) - 1,
                                      Len(new_legs)),
                   changedLegs |-> <<>>,
                   costDelta |-> total_cost - it.totalCost,
                   etaDelta |-> DemoEtaDelta],
         meta |-> [solver |-> "DEMO_HARDCODED",
                   stopsDropped |-> 1,
                   version |-> it.version + 1]]

-----------------------------------------------------------------------------
(* Requests *)

StopKinds ==
    {[priority |-> "MUST_VISIT", status |-> "PENDING", dropReason |-> ""],
     [priority |-> "NICE_TO_HAVE", status |-> "PENDING", dropReason |-> ""],
     [priority |-> "NICE_TO_HAVE", status |-> "COMPLETED", dropReason |-> ""],
     [priority |-> "MUST_VISIT", status |-> "DROPPED", dropReason |-> ""]}

BudgetChoices == {0, 2}

\* half a second ahead, 150 seconds ahead
DeadlineChoices == {Instant(1), Instant(300)}

\* ticks that can pass between reading the clock for the deadline budget and
\* reading it for projectedETA
ElapsedChoices == {0, 2}

PreferredModeChoices == {<<"TRANSIT", "WALKING">>, <<"WALKING">>}

Events ==
    {DisruptionEvent("evt-1", "VENUE_CLOSED", "MAJOR", {}, {}, StopId(1), 0),
     DisruptionEvent("evt-2", "VENUE_CLOSED", "MAJOR", {}, {}, StopId(2), 0),
     DisruptionEvent("evt-3", "LINE_CANCELLATION", "CRITICAL", {"TRANSIT"},
                     {}, "", 0),
     DisruptionEvent("evt-4", "TRANSIT_DELAY", "MAJOR", {"TRANSIT"}, {}, "",
                     15),
     DisruptionEvent("evt-5", "WEATHER", "MAJOR", {"WALKING", "EBIKE"}, {},
                     "", 0)}

\* An itinerary as create_itinerary builds it at tick 0 in demo mode: one
\* leg per consecutive pair of stops, in the first preferred mode (TRANSIT
\* when none is given), priced and timed by _mock_directions, which computes
\* what _mock_leg_data computes; projectedETA is the instant of creation
\* plus the legs' durations. Every stop is PENDING when created; kinds also
\* gives the statuses a client can send to POST /replan.
PlannedItinerary(kinds, budget, deadline, modes) ==
    LET n == Len(kinds)
        mode == IF modes # <<>> THEN modes[1] ELSE "TRANSIT"
        legs == [k \in 1..(n - 1) |->
                    LET dirs == _mock_leg_data(StopId(k), StopId(k + 1), mode)
                    IN  Leg(StopId(k), StopId(k + 1), mode, dirs.costCents,
                            dirs.durationSec, TRUE)]
        total_duration == SumSeq([k \in 1..Len(legs) |->
                                     legs[k].durationSec])
    IN  [id |-> "itin-test-001",
         version |-> 1,
         user |-> [budgetCents |-> budget, returnDeadline |-> deadline,
                   preferredModes |-> modes],
         stops |-> [k \in 1..n |->
                       Stop(StopId(k), kinds[k].priority, kinds[k].status,
                            kinds[k].dropReason)],
         legs |-> legs,
         totalCost |-> SumSeq([k \in 1..Len(legs) |-> legs[k].costCents]),
         projectedETA |-> Instant(total_duration * TicksPerSec),
         status |-> "ACTIVE"]

\* the demo session's itinerary as scripts/seed_maya.py builds it
MayaItinerary ==
    [id |-> DEMO_SESSION,
     version |-> 1,
     user |-> [budgetCents |-> 2000, returnDeadline |-> BadInstant,
               preferredModes |-> <<"TRANSIT", "EBIKE", "RIDESHARE",
                                    "WALKING">>],
     stops |-> <<Stop("home", "MUST_VISIT", "COMPLETED", ""),
                 Stop("farmers-market", "MUST_VISIT", "PENDING", ""),
                 Stop("art-museum", "MUST_VISIT", "PENDING", ""),
                 Stop("rooftop-bar", "NICE_TO_HAVE", "PENDING", "")>>,
     legs |->
        <<DrawnLeg("home", "farmers-market", "TRANSIT", 250, 1080, TRUE,
             "mfrFnechVqyBkAeCgBkDoAoCyiBucBicBaaBagBckCYCQyBIqB"),
          DrawnLeg("farmers-market", "art-museum", "TRANSIT", 0, 720, TRUE,
             "ierFachVdBnCjBjCdBrBpAdAlBrtAnxAfAfB"),
          DrawnLeg("art-museum", "rooftop-bar", "TRANSIT", 250, 900, TRUE,
             "qmrFtchVagAicAoAsywqkcAaA"),
          DrawnLeg("rooftop-bar", "home", "TRANSIT", 250, 1200, TRUE,
             "worFjlchVnpvjxzXPzFCKzUxvc")>>,
     totalCost |-> 750,
     projectedETA |-> BadInstant,
     status |-> "ACTIVE"]

\* the demo session after every stop has been visited
MayaEveningItinerary ==
    [MayaItinerary EXCEPT
       !.stops = [k \in 1..Len(@) |-> [@[k] EXCEPT !.status = "COMPLETED"]]]

\* the demo session as step 1 leaves it when the rooftop bar has closed:
\* rooftop-bar is DROPPED with the venue-closed reason
MayaBarClosedItinerary ==
    apply_disruption(MayaItinerary,
                     DisruptionEvent("evt-0", "VENUE_CLOSED", "MAJOR", {}, {},
                                     "rooftop-bar", 0))

\* the stop lists of tests/test_drop_logic.py (STOP_COMBOS): home, then the
\* listed priorities, all PENDING
MustStop == [priority |-> "MUST_VISIT", status |-> "PENDING", dropReason |-> ""]
NiceStop == [priority |-> "NICE_TO_HAVE", status |-> "PENDING",
             dropReason |-> ""]

DropLogicCombos ==
    {<<MustStop, MustStop, NiceStop, MustStop>>,
     <<MustStop, MustStop, NiceStop, NiceStop>>,
     <<MustStop, NiceStop, NiceStop, NiceStop>>,
     <<MustStop, MustStop, MustStop, MustStop>>,
     <<MustStop, MustStop, NiceStop, MustStop, NiceStop>>}

DroppedStop == [priority |-> "MUST_VISIT", status |-> "DROPPED",
                dropReason |-> ""]

\* five stops and a deadline 250 seconds ahead: a tour of four stops fits
LongDayItinerary ==
    PlannedItinerary(<<MustStop, MustStop, NiceStop, MustStop, MustStop>>,
                     2, Instant(500), <<"TRANSIT", "WALKING">>)

\* five stops, one of them dropped by hand earlier with no reason recorded
RevisedItinerary ==
    PlannedItinerary(<<MustStop, MustStop, DroppedStop, NiceStop, MustStop>>,
                     2, Instant(300), <<"TRANSIT", "WALKING">>)

\* four stops and a budget that pays four upstream fares
PairedVenuesItinerary ==
    PlannedItinerary(<<MustStop, MustStop, MustStop, MustStop>>,
                     4, Instant(300), <<"TRANSIT", "WALKING">>)

\* two stops and a return deadline written without a time zone
NaiveDeadlineItinerary ==
    PlannedItinerary(<<MustStop, MustStop>>, 2, NaiveInstant(300),
                     <<"WALKING">>)

\* two stops and a projectedETA written without a time zone
NaiveEtaItinerary ==
    [PlannedItinerary(<<MustStop, MustStop>>, 2, Instant(300), <<"WALKING">>)
        EXCEPT !.projectedETA = NaiveInstant(200)]

\* three stops planned on foot, sent to POST /replan after the traveller put
\* TRANSIT first among the preferred modes
ModeSwitchItinerary ==
    [PlannedItinerary(<<MustStop, MustStop, MustStop>>, 2, Instant(300),
                      <<"WALKING">>)
        EXCEPT !.user.preferredModes = <<"TRANSIT", "WALKING">>]

Requests ==
    {PlannedItinerary(kinds, budget, deadline, modes) :
        kinds \in UNION {[1..n -> StopKinds] : n \in 2..MaxStops},
        budget \in BudgetChoices,
        deadline \in DeadlineChoices,
        modes \in PreferredModeChoices}
    \cup {PlannedItinerary(kinds, 2, Instant(300), <<"TRANSIT", "WALKING">>) :
             kinds \in DropLogicCombos}
    \cup {LongDayItinerary, RevisedItinerary, PairedVenuesItinerary,
          NaiveDeadlineItinerary, NaiveEtaItinerary, ModeSwitchItinerary}
    \cup {MayaItinerary, MayaEveningItinerary, MayaBarClosedItinerary}

-----------------------------------------------------------------------------
(* State machine *)

\* no direct solver call and no fan-out under observation
NoCall == [phase |-> "none"]
NoFanOut == [phase |-> "none"]
NoProcess == [phase |-> "none"]
NoStore == [phase |-> "none"]

\* a request enters replan_itinerary: lines 528-531
Enter(itinerary, ev, now) ==
    /\ pc = "start"
    /\ req = itinerary
    /\ input0 = itinerary
    /\ event = ev
    /\ itin = itinerary
    /\ itinRef = model_copy_deep
    /\ stops_to_route = <<>>
    /\ activeIn = <<>>
    /\ pendingAfter1 = -1
    /\ c_mx = <<>>
    /\ t_mx = <<>>
    /\ leg_details = <<>>
    /\ deadline_sec = 0
    /\ dropped_stops = <<>>
    /\ loopDropped = <<>>
    /\ route_indices = <<>>
    /\ routeBy = "none"
    /\ iteration = 0
    /\ clock = now
    /\ nowDeadline = now
    /\ queries = 0
    /\ solverRuns = 0
    /\ result = NoResult
    /\ call = NoCall
    /\ fan = NoFanOut
    /\ friction = NoProcess
    /\ store = NoStore

Init ==
    /\ \E itinerary \in Requests, ev \in Events : Enter(itinerary, ev, 0)
    /\ replans = 0
    /\ earlier = NoResult

\* the deterministic demo bypass
DemoBypass ==
    /\ pc = "start"
    /\ IsDemoBypass(itin, event)
    /\ result' = hardcoded_maya_replan(itin)
    /\ pc' = "done"
    /\ replans' = replans + 1
    /\ UNCHANGED sideVars
    /\ UNCHANGED leg_details
    /\ UNCHANGED <<req, input0, event, itin, itinRef, stops_to_route,
                   activeIn, pendingAfter1, c_mx, t_mx, deadline_sec, dropped_stops,
                   loopDropped, route_indices, routeBy, iteration, clock,
                   nowDeadline, queries, solverRuns>>

\* step 1
ApplyDisruption ==
    /\ pc = "start"
    /\ ~IsDemoBypass(itin, event)
    /\ itin' = apply_disruption(itin, event)
    /\ req' = ThroughAlias(itin')
    /\ pendingAfter1' = Len(ActiveStops(itin'))
    /\ pc' = "step2"
    /\ UNCHANGED sideVars
    /\ UNCHANGED leg_details
    /\ UNCHANGED <<input0, event, itinRef, stops_to_route, activeIn, c_mx,
                   t_mx, deadline_sec, dropped_stops, loopDropped,
                   route_indices, routeBy, iteration, clock, nowDeadline,
                   queries, solverRuns, result, replans>>

\* step 2, fewer than two active stops
InsufficientStops ==
    /\ pc = "step2"
    /\ TooFewActive(ActiveStops(itin))
    /\ result' = HttpError(422,
                   "Need at least 2 active stops to build an itinerary.")
    /\ pc' = "failed"
    /\ UNCHANGED sideVars
    /\ UNCHANGED leg_details
    /\ UNCHANGED <<req, input0, event, itin, itinRef, stops_to_route,
                   activeIn, pendingAfter1, c_mx, t_mx, deadline_sec, dropped_stops,
                   loopDropped, route_indices, routeBy, iteration, clock,
                   nowDeadline, queries, solverRuns, replans>>

\* step 2, the fan-out, then the deadline budget and the loop's set-up
FetchAlternatives ==
    /\ pc = "step2"
    /\ ~TooFewActive(ActiveStops(itin))
    /\ ~DeadlineRaises(itin.user.returnDeadline)
    /\ LET active_stops == ActiveStops(itin)
           n == Len(active_stops)
           active_ids == [k \in 1..n |-> itin.stops[active_stops[k]].id]
           mode == FanOutMode(itin.user.preferredModes)
       IN  \E answers \in FanOutAnswers(n, mode) :
              /\ activeIn' = active_stops
              /\ stops_to_route' = active_stops
              /\ c_mx' = cost_matrix(active_ids, mode, answers)
              /\ t_mx' = time_matrix(active_ids, mode, answers)
              /\ leg_details' = LegDetails(active_ids, mode, answers)
              /\ queries' = queries + Cardinality(OrderedPairs(n))
    /\ nowDeadline' = clock
    /\ deadline_sec' = DeadlineSec(itin.user.returnDeadline, clock)
    /\ dropped_stops' = AlreadyDropped(itin)
    /\ pc' = "loop"
    /\ UNCHANGED sideVars
    /\ UNCHANGED <<req, input0, event, itin, itinRef, pendingAfter1,
                   loopDropped,
                   route_indices, routeBy, iteration, clock, solverRuns,
                   result, replans>>

\* step 2 with a deadline whose subtraction raises: the fan-out has run, the
\* uncaught TypeError ends the request with the framework's 500 response
DeadlineTypeError ==
    /\ pc = "step2"
    /\ ~TooFewActive(ActiveStops(itin))
    /\ DeadlineRaises(itin.user.returnDeadline)
    /\ queries' = queries + Cardinality(OrderedPairs(Len(ActiveStops(itin))))
    /\ result' = HttpError(500, "Internal Server Error")
    /\ pc' = "failed"
    /\ UNCHANGED sideVars
    /\ UNCHANGED leg_details
    /\ UNCHANGED <<req, input0, event, itin, itinRef, stops_to_route,
                   activeIn, pendingAfter1, c_mx, t_mx, deadline_sec,
                   dropped_stops, loopDropped, route_indices, routeBy,
                   iteration, clock, nowDeadline, solverRuns, replans>>

\* LoopRuns giving up one stop early
LoopRunsAboveTwo == iteration < Len(activeIn) /\ Len(stops_to_route) >= 3

\* for iteration in range(max_drop_iterations), break below two stops
LoopRuns == iteration < Len(activeIn) /\ Len(stops_to_route) >= 2

PrimaryOutcomes ==
    solve_vrptw(Len(stops_to_route), c_mx, t_mx, itin.user.budgetCents,
                deadline_sec, 0)

GreedyOutcome ==
    greedy_fallback(Len(stops_to_route), c_mx, t_mx, itin.user.budgetCents,
                    deadline_sec, 0)

\* a round of the loop in which solve_vrptw returns a route
LoopPrimary ==
    /\ pc = "loop"
    /\ LoopRuns
    /\ \E r \in PrimaryOutcomes :
          /\ r # <<>>
          /\ route_indices' = r
    /\ routeBy' = "solve_vrptw"
    /\ solverRuns' = solverRuns + 1
    /\ iteration' = iteration + 1
    /\ pc' = "afterloop"
    /\ UNCHANGED sideVars
    /\ UNCHANGED leg_details
    /\ UNCHANGED <<req, input0, event, itin, itinRef, stops_to_route,
                   activeIn, pendingAfter1, c_mx, t_mx, deadline_sec, dropped_stops,
                   loopDropped, clock, nowDeadline, queries, result, replans>>

\* a round in which solve_vrptw returns None and greedy_fallback a route
LoopGreedy ==
    /\ pc = "loop"
    /\ LoopRuns
    /\ <<>> \in PrimaryOutcomes
    /\ GreedyOutcome # <<>>
    /\ route_indices' = GreedyOutcome
    /\ routeBy' = "greedy_fallback"
    /\ solverRuns' = solverRuns + 2
    /\ iteration' = iteration + 1
    /\ pc' = "afterloop"
    /\ UNCHANGED sideVars
    /\ UNCHANGED leg_details
    /\ UNCHANGED <<req, input0, event, itin, itinRef, stops_to_route,
                   activeIn, pendingAfter1, c_mx, t_mx, deadline_sec, dropped_stops,
                   loopDropped, clock, nowDeadline, queries, result, replans>>

\* a round in which both solvers return None: step 5
LoopDrop ==
    /\ pc = "loop"
    /\ LoopRuns
    /\ <<>> \in PrimaryOutcomes
    /\ GreedyOutcome = <<>>
    /\ LET d == drop_lowest_priority(itin.stops, stops_to_route, c_mx, t_mx)
       IN  /\ itin' = [itin EXCEPT !.stops = d.itStops]
           /\ stops_to_route' = d.stops
           /\ c_mx' = d.cost_matrix
           /\ t_mx' = d.time_matrix
           /\ IF d.dropped = 0
              THEN /\ pc' = "afterloop"
                   /\ UNCHANGED <<dropped_stops, loopDropped>>
              ELSE /\ pc' = "loop"
                   /\ dropped_stops' = Append(dropped_stops, d.dropped)
                   /\ loopDropped' = Append(loopDropped, d.dropped)
    /\ req' = ThroughAlias(itin')
    /\ solverRuns' = solverRuns + 2
    /\ iteration' = iteration + 1
    /\ UNCHANGED sideVars
    /\ UNCHANGED leg_details
    /\ UNCHANGED <<input0, event, itinRef, activeIn, pendingAfter1, deadline_sec,
                   route_indices, routeBy, clock, nowDeadline, queries,
                   result, replans>>

\* the loop ends without a break
LoopExit ==
    /\ pc = "loop"
    /\ ~LoopRuns
    /\ pc' = "afterloop"
    /\ UNCHANGED sideVars
    /\ UNCHANGED leg_details
    /\ UNCHANGED <<req, input0, event, itin, itinRef, stops_to_route,
                   activeIn, pendingAfter1, c_mx, t_mx, deadline_sec, dropped_stops,
                   loopDropped, route_indices, routeBy, iteration, clock,
                   nowDeadline, queries, solverRuns, result, replans>>

\* no route after the loop
NoFeasibleRoute ==
    /\ pc = "afterloop"
    /\ route_indices = <<>>
    /\ result' = HttpError(422,
                   "Unable to find any feasible route even after dropping all droppable stops.")
    /\ pc' = "failed"
    /\ UNCHANGED sideVars
    /\ UNCHANGED leg_details
    /\ UNCHANGED <<req, input0, event, itin, itinRef, stops_to_route,
                   activeIn, pendingAfter1, c_mx, t_mx, deadline_sec, dropped_stops,
                   loopDropped, route_indices, routeBy, iteration, clock,
                   nowDeadline, queries, solverRuns, replans>>

\* steps 5.5 to 7; elapsed ticks have passed since the deadline budget was
\* computed
Assemble ==
    /\ pc = "afterloop"
    /\ route_indices # <<>>
    /\ ~EtaRaises(req.projectedETA)
    /\ \E elapsed \in ElapsedChoices :
          /\ clock' = clock + elapsed
          /\ result' = AssembleResult(req, itin, stops_to_route,
                                      dropped_stops, route_indices, c_mx,
                                      t_mx, leg_details, clock + elapsed)
    /\ pc' = "done"
    /\ replans' = replans + 1
    /\ UNCHANGED sideVars
    /\ UNCHANGED leg_details
    /\ UNCHANGED <<req, input0, event, itin, itinRef, stops_to_route,
                   activeIn, pendingAfter1, c_mx, t_mx, deadline_sec, dropped_stops,
                   loopDropped, route_indices, routeBy, iteration,
                   nowDeadline, queries, solverRuns>>

\* step 6 with an old projectedETA whose subtraction raises: the legs are
\* built and scored, the uncaught TypeError ends the request with the
\* framework's 500 response
EtaTypeError ==
    /\ pc = "afterloop"
    /\ route_indices # <<>>
    /\ EtaRaises(req.projectedETA)
    /\ \E elapsed \in ElapsedChoices : clock' = clock + elapsed
    /\ result' = HttpError(500, "Internal Server Error")
    /\ pc' = "failed"
    /\ UNCHANGED sideVars
    /\ UNCHANGED leg_details
    /\ UNCHANGED <<req, input0, event, itin, itinRef, stops_to_route,
                   activeIn, pendingAfter1, c_mx, t_mx, deadline_sec, dropped_stops,
                   loopDropped, route_indices, routeBy, iteration,
                   nowDeadline, queries, solverRuns, replans>>

\* the returned itinerary is submitted again with a new disruption
Resubmit ==
    /\ pc = "done"
    /\ replans < MaxReplans
    /\ \E ev \in Events :
          /\ pc' = "start"
          /\ req' = result.itinerary
          /\ input0' = result.itinerary
          /\ event' = ev
          /\ itin' = result.itinerary
          /\ itinRef' = model_copy_deep
          /\ stops_to_route' = <<>>
          /\ activeIn' = <<>>
          /\ pendingAfter1' = -1
          /\ c_mx' = <<>>
          /\ t_mx' = <<>>
          /\ leg_details' = <<>>
          /\ deadline_sec' = 0
          /\ dropped_stops' = <<>>
          /\ loopDropped' = <<>>
          /\ route_indices' = <<>>
          /\ routeBy' = "none"
          /\ iteration' = 0
          /\ nowDeadline' = clock
          /\ queries' = 0
          /\ solverRuns' = 0
          /\ result' = NoResult
    /\ UNCHANGED sideVars
    /\ UNCHANGED <<clock, replans>>

Next ==
    \/ DemoBypass
    \/ ApplyDisruption
    \/ InsufficientStops
    \/ FetchAlternatives
    \/ DeadlineTypeError
    \/ LoopPrimary
    \/ LoopGreedy
    \/ LoopDrop
    \/ LoopExit
    \/ NoFeasibleRoute
    \/ Assemble
    \/ EtaTypeError
    \/ Resubmit

Spec == Init /\ [][Next]_vars

-----------------------------------------------------------------------------
(* The solvers called directly *)

UnorderedPairs(n) == {pr \in SUBSET Nodes(n) : Cardinality(pr) = 2}

\* matrices with a zero diagonal and the same entry in both directions
SymmetricMatrices(n, values) ==
    {[i \in 1..n |-> [j \in 1..n |->
          IF i = j THEN 0 ELSE f[{i - 1, j - 1}]]] :
       f \in [UnorderedPairs(n) -> values]}

UniformMatrix(n, c) ==
    [i \in 1..n |-> [j \in 1..n |-> IF i = j THEN 0 ELSE c]]

TimeChoices == {0, 1}
CostChoices == {0, 1}
SolverBudgetChoices == {0, 2}
SolverDeadlineChoices == {1, 2}
StartChoices == {0, 1}

SolverCalls ==
    UNION {
      {[phase |-> "called", n |-> n,
        cost_matrix |-> UniformMatrix(n, c), time_matrix |-> tm,
        budget_cents |-> b, deadline_seconds |-> d, start_index |-> st,
        primaryRan |-> FALSE, primary |-> <<>>,
        greedyRan |-> FALSE, greedy |-> <<>>] :
          c \in CostChoices, tm \in SymmetricMatrices(n, TimeChoices),
          b \in SolverBudgetChoices, d \in SolverDeadlineChoices,
          st \in StartChoices} :
      n \in 2..MaxSolverStops}

NoItinerary == [id |-> "", stops |-> <<>>, legs |-> <<>>]
NoEvent == [id |-> "", type |-> ""]

\* no request in progress
Idle(position) ==
    /\ pc = position
    /\ req = NoItinerary
    /\ input0 = NoItinerary
    /\ event = NoEvent
    /\ itin = NoItinerary
    /\ itinRef = model_copy_deep
    /\ stops_to_route = <<>>
    /\ activeIn = <<>>
    /\ pendingAfter1 = -1
    /\ c_mx = <<>>
    /\ t_mx = <<>>
    /\ leg_details = <<>>
    /\ deadline_sec = 0
    /\ dropped_stops = <<>>
    /\ loopDropped = <<>>
    /\ route_indices = <<>>
    /\ routeBy = "none"
    /\ iteration = 0
    /\ clock = 0
    /\ nowDeadline = 0
    /\ queries = 0
    /\ solverRuns = 0
    /\ result = NoResult
    /\ replans = 0

pipelineVars == <<pc, req, input0, event, itin, itinRef, stops_to_route,
                  activeIn, pendingAfter1, c_mx, t_mx, leg_details,
                  deadline_sec,
                  dropped_stops, loopDropped, route_indices, routeBy,
                  iteration, clock, nowDeadline, queries, solverRuns, result,
                  replans>>

SolverInit ==
    /\ Idle("solver")
    /\ call \in SolverCalls
    /\ fan = NoFanOut
    /\ friction = NoProcess
    /\ store = NoStore
    /\ earlier = NoResult

\* solve_vrptw is called on the inputs and returns
CallPrimary ==
    /\ pc = "solver"
    /\ ~call.primaryRan
    /\ \E r \in solve_vrptw(call.n, call.cost_matrix, call.time_matrix,
                             call.budget_cents, call.deadline_seconds,
                             call.start_index) :
          call' = [call EXCEPT !.primaryRan = TRUE, !.primary = r]
    /\ UNCHANGED <<pipelineVars, fan, friction, store, earlier>>

\* greedy_fallback is called on the inputs and returns
CallGreedy ==
    /\ pc = "solver"
    /\ call.primaryRan
    /\ ~call.greedyRan
    /\ call' = [call EXCEPT
                  !.greedyRan = TRUE,
                  !.greedy = greedy_fallback(call.n, call.cost_matrix,
                                             call.time_matrix,
                                             call.budget_cents,
                                             call.deadline_seconds,
                                             call.start_index)]
    /\ UNCHANGED <<pipelineVars, fan, friction, store, earlier>>

SolverNext ==
    \/ CallPrimary
    \/ CallGreedy

SolverSpec == SolverInit /\ [][SolverNext]_vars

-----------------------------------------------------------------------------
(* fetch_alternatives with its queries in flight *)

\* origin and destination (Python indices) of the k-th task created by the
\* nested loops over i and j, i # j
QueryPair(n, k) ==
    LET i == (k - 1) \div (n - 1)
        r == (k - 1) % (n - 1)
    IN  <<i, IF r < i THEN r ELSE r + 1>>

\* TaskKey recording the pair the wrong way round
TaskKeyTransposed(n, k) == <<QueryPair(n, k)[2], QueryPair(n, k)[1]>>

\* the (i, j) appended to task_indices next to the k-th task
TaskKey(n, k) == QueryPair(n, k)

\* what the provider answers for the pair when it answers: a value of its
\* own for every pair
UpstreamAnswer(i, j) ==
    [costCents |-> 10 * i + j + 1, durationSec |-> 10 * j + i + 1]

\* ways a query can end: answered; a response that is not 200/Ok; an
\* exception or time-out of the HTTP call; no HTTP call at all (DEMO_MODE)
FailureKinds == {"non_ok", "raised"}
OutcomeKinds(mode) ==
    IF AsksUpstream(mode) THEN {"ok"} \cup FailureKinds ELSE {"offline"}

\* FetchReturn answering the provider's hard-coded defaults after a failure
FetchReturnDefaults(kind, origin, dest, i, j, mode) ==
    IF kind = "ok" THEN UpstreamAnswer(i, j)
    ELSE IF kind \in FailureKinds
    THEN [costCents |-> 350, durationSec |-> 900]
    ELSE _mock_leg_data(origin, dest, mode)

\* value returned by _fetch_mock_transit, _fetch_mock_ebike or
\* _fetch_osrm_directions for the pair
FetchReturn(kind, origin, dest, i, j, mode) ==
    IF kind = "ok" THEN UpstreamAnswer(i, j)
    ELSE _mock_leg_data(origin, dest, mode)

Pending == [state |-> "pending"]

FanOutCall(n, preferred_modes) ==
    [phase |-> "gathering",
     active_ids |-> [k \in 1..n |-> StopId(k)],
     preferred_modes |-> preferred_modes,
     mode |-> FanOutMode(preferred_modes),
     task_indices |-> [k \in 1..(n * (n - 1)) |-> TaskKey(n, k)],
     results |-> [k \in 1..(n * (n - 1)) |-> Pending],
     failed |-> {},
     cost_matrix |-> <<>>,
     time_matrix |-> <<>>,
     leg_details |-> <<>>]

FanOutModeChoices == {<<"TRANSIT", "WALKING">>, <<"EBIKE">>, <<"WALKING">>, <<>>}

FanOutInit ==
    /\ Idle("fanout")
    /\ call = NoCall
    /\ friction = NoProcess
    /\ store = NoStore
    /\ earlier = NoResult
    /\ \E n \in 2..MaxStops, modes \in FanOutModeChoices :
          fan = FanOutCall(n, modes)

\* one of the gathered coroutines finishes, in any order
QueryCompletes ==
    /\ pc = "fanout"
    /\ fan.phase = "gathering"
    /\ \E k \in DOMAIN fan.results, kind \in OutcomeKinds(fan.mode) :
          /\ fan.results[k] = Pending
          /\ LET n == Len(fan.active_ids)
                 i == QueryPair(n, k)[1]
                 j == QueryPair(n, k)[2]
                 value == FetchReturn(kind, fan.active_ids[i + 1],
                                      fan.active_ids[j + 1], i, j, fan.mode)
             IN  fan' = [fan EXCEPT
                           !.results[k] = [state |-> "done",
                                           costCents |-> value.costCents,
                                           durationSec |-> value.durationSec],
                           !.failed = IF kind \in FailureKinds
                                      THEN @ \cup {k} ELSE @]
    /\ UNCHANGED <<pipelineVars, call, friction, store, earlier>>

\* matrix filled from zip(task_indices, results), zero elsewhere
Collected(n, task_indices, results, field) ==
    [a \in 1..n |-> [b \in 1..n |->
        LET ks == {k \in DOMAIN task_indices :
                      task_indices[k] = <<a - 1, b - 1>>}
        IN  IF ks = {} THEN 0
            ELSE results[CHOOSE k \in ks : \A m \in ks : m <= k][field]]]

\* asyncio.gather has every result: the loop over zip(task_indices,
\* results) fills the matrices and the detail map, and the call returns
GatherReturns ==
    /\ pc = "fanout"
    /\ fan.phase = "gathering"
    /\ \A k \in DOMAIN fan.results : fan.results[k] # Pending
    /\ LET n == Len(fan.active_ids)
       IN  fan' = [fan EXCEPT
              !.phase = "returned",
              !.cost_matrix = Collected(n, fan.task_indices, fan.results,
                                        "costCents"),
              !.time_matrix = Collected(n, fan.task_indices, fan.results,
                                        "durationSec"),
              !.leg_details =
                  [key \in Range(fan.task_indices) |->
                      LET ks == {k \in DOMAIN fan.task_indices :
                                    fan.task_indices[k] = key}
                          k == CHOOSE k \in ks : \A m \in ks : m <= k
                      IN  [costCents |-> fan.results[k].costCents,
                           durationSec |-> fan.results[k].durationSec,
                           mode |-> fan.mode]]]
    /\ UNCHANGED <<pipelineVars, call, friction, store, earlier>>

FanOutNext ==
    \/ QueryCompletes
    \/ GatherReturns

FanOutSpec == FanOutInit /\ [][FanOutNext]_vars

-----------------------------------------------------------------------------
(* friction_model.py: the lazily loaded model of one process *)

\* predict_friction calls made by the process
MaxScoreCalls == 3

\* scores are counted in ten-thousandths
ScoreUnit == 10000

\* _load_model: _model is assigned only when the artifact is on disk
_load_model(model, exists) ==
    IF model = "None"
    THEN IF exists THEN "loaded" ELSE "None"
    ELSE model

\* _mock_friction_score for a leg of the given mode, scored in a peak hour
\* or not, whose stop ids hash to hash_val modulo 100
_mock_friction_score(mode, peak, hash_val) ==
    LET base == IF mode = "TRANSIT" /\ peak THEN 5500
                ELSE IF mode = "EBIKE" THEN 2500
                ELSE IF mode = "RIDESHARE" THEN 3500
                ELSE 1500
        raw == base + (hash_val - 50) * 40
    IN  IF raw < 0 THEN 0 ELSE IF raw > ScoreUnit THEN ScoreUnit ELSE raw

\* classify_friction_level
classify_friction_level(score) ==
    IF score < 3000 THEN "LOW"
    ELSE IF score <= 7000 THEN "MEDIUM"
    ELSE "HIGH"

\* the scores halfway between two thousandths that round(score, 3) rounds
\* up: those whose float lies above the halfway point, and of the floats
\* that are exactly halfway those above an odd thousandth
HalfwayRoundedUp ==
    {5, 15, 25, 35, 85, 105, 125, 145, 165, 175, 205, 235, 245, 275, 285,
     315, 325, 335, 345, 395, 405, 415, 425, 475, 485, 495, 505, 555, 565,
     575, 585, 635, 645, 655, 665, 675, 685, 695, 785, 795, 805, 815, 825,
     835, 845, 855, 945, 955, 965, 975, 985, 995, 1005, 1015, 1095, 1105,
     1115, 1125, 1135, 1145, 1155, 1165, 1255, 1265, 1275, 1285, 1295, 1305,
     1315, 1325, 1335, 1345, 1355, 1365, 1375, 1385, 1395, 1405, 1565, 1575,
     1585, 1595, 1605, 1615, 1625, 1635, 1645, 1655, 1665, 1675, 1685, 1695,
     1705, 1715, 1875, 1885, 1895, 1905, 1915, 1925, 1935, 1945, 1955, 1965,
     1975, 1985, 1995, 2005, 2015, 2025, 2195, 2205, 2215, 2225, 2235, 2245,
     2255, 2265, 2275, 2285, 2295, 2305, 2315, 2325, 2335, 2505, 2515, 2525,
     2535, 2545, 2555, 2565, 2575, 2585, 2595, 2605, 2615, 2625, 2635, 2645,
     2655, 2665, 2675, 2685, 2695, 2705, 2715, 2725, 2735, 2745, 2755, 2765,
     2775, 2785, 2795, 2805, 3135, 3145, 3155, 3165, 3175, 3185, 3195, 3205,
     3215, 3225, 3235, 3245, 3255, 3265, 3275, 3285, 3295, 3305, 3315, 3325,
     3335, 3345, 3355, 3365, 3375, 3385, 3395, 3405, 3415, 3425, 3435, 3755,
     3765, 3775, 3785, 3795, 3805, 3815, 3825, 3835, 3845, 3855, 3865, 3875,
     3885, 3895, 3905, 3915, 3925, 3935, 3945, 3955, 3965, 3975, 3985, 3995,
     4005, 4015, 4025, 4035, 4045, 4055, 4375, 4385, 4395, 4405, 4415, 4425,
     4435, 4445, 4455, 4465, 4475, 4485, 4495, 4505, 4515, 4525, 4535, 4545,
     4555, 4565, 4575, 4585, 4595, 4605, 4615, 4625, 4635, 4645, 4655, 4665,
     4675, 4685, 5635, 5645, 5655, 5665, 5675, 5685, 5695, 5705, 5715, 5725,
     5735, 5745, 5755, 5765, 5775, 5785, 5795, 5805, 5815, 5825, 5835, 5845,
     5855, 5865, 5875, 5885, 5895, 5905, 5915, 5925, 5935, 5945, 5955, 5965,
     5975, 5985, 5995, 6005, 6015, 6025, 6035, 6045, 6055, 6065, 6075, 6085,
     6095, 6105, 6115, 6125, 6135, 6145, 6155, 6165, 6175, 6185, 6195, 6205,
     6215, 6225, 6235, 6245, 6875, 6885, 6895, 6905, 6915, 6925, 6935, 6945,
     6955, 6965, 6975, 6985, 6995, 7005, 7015, 7025, 7035, 7045, 7055, 7065,
     7075, 7085, 7095, 7105, 7115, 7125, 7135, 7145, 7155, 7165, 7175, 7185,
     7195, 7205, 7215, 7225, 7235, 7245, 7255, 7265, 7275, 7285, 7295, 7305,
     7315, 7325, 7335, 7345, 7355, 7365, 7375, 7385, 7395, 7405, 7415, 7425,
     7435, 7445, 7455, 7465, 7475, 7485, 7495, 8135, 8145, 8155, 8165, 8175,
     8185, 8195, 8205, 8215, 8225, 8235, 8245, 8255, 8265, 8275, 8285, 8295,
     8305, 8315, 8325, 8335, 8345, 8355, 8365, 8375, 8385, 8395, 8405, 8415,
     8425, 8435, 8445, 8455, 8465, 8475, 8485, 8495, 8505, 8515, 8525, 8535,
     8545, 8555, 8565, 8575, 8585, 8595, 8605, 8615, 8625, 8635, 8645, 8655,
     8665, 8675, 8685, 8695, 8705, 8715, 8725, 8735, 8745, 9375, 9385, 9395,
     9405, 9415, 9425, 9435, 9445, 9455, 9465, 9475, 9485, 9495, 9505, 9515,
     9525, 9535, 9545, 9555, 9565, 9575, 9585, 9595, 9605, 9615, 9625, 9635,
     9645, 9655, 9665, 9675, 9685, 9695, 9705, 9715, 9725, 9735, 9745, 9755,
     9765, 9775, 9785, 9795, 9805, 9815, 9825, 9835, 9845, 9855, 9865, 9875,
     9885, 9895, 9905, 9915, 9925, 9935, 9945, 9955, 9965, 9975, 9985, 9995}

\* round(score, 3): the thousandth nearest to the float of the score
Round3(score) ==
    LET down == (score \div 10) * 10
        rest == score - down
    IN  IF rest < 5 THEN down
        ELSE IF rest > 5 THEN down + 10
        ELSE IF score \in HalfwayRoundedUp THEN down + 10 ELSE down

\* the entry of predict_friction's result for a leg scored by the named
\* scorer: the level of the score, and the score rounded
FrictionEntry(by, score) ==
    [by |-> by, score |-> score,
     frictionScore |-> Round3(score),
     frictionLevel |-> classify_friction_level(score)]

\* probabilities the trained classifier can answer
ModelScores == {1200, 2995, 2996, 7004}

LegChoices == [mode : {"TRANSIT", "EBIKE"}, peak : BOOLEAN, hash_val : {0, 99}]

FrictionInit ==
    /\ Idle("friction")
    /\ call = NoCall
    /\ fan = NoFanOut
    /\ store = NoStore
    /\ earlier = NoResult
    /\ \E exists \in BOOLEAN :
          friction = [phase |-> "running", artifact |-> exists,
                      model |-> "None", used |-> <<>>]

\* the artifact file is written to MODEL_PATH while the process runs
ArtifactAppears ==
    /\ pc = "friction"
    /\ ~friction.artifact
    /\ friction' = [friction EXCEPT !.artifact = TRUE]
    /\ UNCHANGED <<pipelineVars, call, fan, store, earlier>>

\* the artifact file is removed
ArtifactRemoved ==
    /\ pc = "friction"
    /\ friction.artifact
    /\ friction' = [friction EXCEPT !.artifact = FALSE]
    /\ UNCHANGED <<pipelineVars, call, fan, store, earlier>>

\* predict_friction on one leg
PredictFriction ==
    /\ pc = "friction"
    /\ Len(friction.used) < MaxScoreCalls
    /\ LET model == _load_model(friction.model, friction.artifact)
       IN  \E leg \in LegChoices, p \in ModelScores :
              friction' = [friction EXCEPT
                 !.model = model,
                 !.used = Append(@,
                    IF model # "None"
                    THEN FrictionEntry("model", p)
                    ELSE FrictionEntry("mock",
                            _mock_friction_score(leg.mode, leg.peak,
                                                 leg.hash_val)))]
    /\ UNCHANGED <<pipelineVars, call, fan, store, earlier>>

FrictionNext ==
    \/ ArtifactAppears
    \/ ArtifactRemoved
    \/ PredictFriction

FrictionSpec == FrictionInit /\ [][FrictionNext]_vars

-----------------------------------------------------------------------------
(* The same request posted to /replan a second time *)

\* the caller posts the request it posted before, gap ticks after the first
\* answer
Repeat ==
    /\ pc \in {"done", "failed"}
    /\ earlier = NoResult
    /\ earlier' = result
    /\ \E gap \in ElapsedChoices : clock' = clock + gap
    /\ pc' = "start"
    /\ req' = input0
    /\ itin' = input0
    /\ itinRef' = model_copy_deep
    /\ stops_to_route' = <<>>
    /\ activeIn' = <<>>
    /\ pendingAfter1' = -1
    /\ c_mx' = <<>>
    /\ t_mx' = <<>>
    /\ leg_details' = <<>>
    /\ deadline_sec' = 0
    /\ dropped_stops' = <<>>
    /\ loopDropped' = <<>>
    /\ route_indices' = <<>>
    /\ routeBy' = "none"
    /\ iteration' = 0
    /\ nowDeadline' = clock'
    /\ queries' = 0
    /\ solverRuns' = 0
    /\ result' = NoResult
    /\ UNCHANGED <<input0, event, replans, call, fan, friction, store>>

RepeatNext ==
    \/ DemoBypass
    \/ ApplyDisruption
    \/ InsufficientStops
    \/ FetchAlternatives
    \/ DeadlineTypeError
    \/ LoopPrimary
    \/ LoopGreedy
    \/ LoopDrop
    \/ LoopExit
    \/ NoFeasibleRoute
    \/ Assemble
    \/ EtaTypeError
    \/ Repeat

RepeatSpec == Init /\ [][RepeatNext]_vars

-----------------------------------------------------------------------------
(* api/routes.py and redis/state.py: the handlers that read and write the *)
(* two slots of one session                                              *)

\* handler invocations on the session
MaxHandlers == 3

\* an itinerary of the session as the store holds it: its version and the
\* events whose replans produced it
Stored(version, applied) == [version |-> version, applied |-> applied]

\* hget found nothing
Nothing == Stored(0, <<>>)

\* the itinerary create_itinerary stores: version 1
CreatedItinerary == Stored(1, <<>>)

\* the itinerary a successful replan of it returns for the event
Replanned(it, event_id) ==
    Stored(BumpVersion(it.version), Append(it.applied, event_id))

\* replan_itinerary returns, raises HTTPException(422), or raises another
\* exception that inject_disruption turns into HTTPException(500)
ReplanOutcomes == {200, 422, 500}

\* the two slots as a call finds them, and whether every other call so far
\* had ended by then
SlotsSeen(current, previous, alone) ==
    [current |-> current, previous |-> previous, alone |-> alone]

Handler(kind, position) ==
    [kind |-> kind, pc |-> position, itinerary |-> Nothing,
     result |-> Nothing, status |-> 0,
     before |-> SlotsSeen(Nothing, Nothing, FALSE)]

StoreInit ==
    /\ Idle("store")
    /\ call = NoCall
    /\ fan = NoFanOut
    /\ friction = NoProcess
    /\ earlier = NoResult
    /\ store = [phase |-> "running",
                current |-> CreatedItinerary,
                previous |-> Nothing,
                handlers |-> <<>>,
                saved |-> <<>>,
                undoOf |-> Nothing,
                undone |-> <<>>]

\* the position a call of each kind starts at
FirstPositions == {"get", "get_prev", "create", "delete"}

\* a call begins: POST /disruption, POST /undo/{session_id}, POST /itinerary
\* with the session's id, or clear_session
Arrive ==
    /\ pc = "store"
    /\ Len(store.handlers) < MaxHandlers
    /\ \E h \in {Handler("inject", "get"), Handler("undo", "get_prev"),
                Handler("create", "create"), Handler("clear", "delete")} :
          store' = [store EXCEPT !.handlers = Append(@, h)]
    /\ UNCHANGED <<pipelineVars, call, fan, friction, earlier>>

\* inject_disruption up to the await of get_itinerary; 404 without one
InjectGet(h) ==
    /\ store.handlers[h].pc = "get"
    /\ store' = [store EXCEPT
          !.handlers[h] =
              IF store.current = Nothing
              THEN [@ EXCEPT !.pc = "failed", !.status = 404]
              ELSE [@ EXCEPT !.pc = "save_prev",
                             !.itinerary = store.current,
                             !.before =
                                 SlotsSeen(store.current, store.previous,
                                    \A g \in DOMAIN store.handlers \ {h} :
                                       store.handlers[g].pc
                                          \in {"done", "failed"})]]

\* "Save current as previous version (for undo)"
InjectSavePrev(h) ==
    /\ store.handlers[h].pc = "save_prev"
    /\ store' = [store EXCEPT
          !.previous = store.handlers[h].itinerary,
          !.handlers[h].pc = "replan"]

\* await replan_itinerary(replan_req)
InjectReplan(h) ==
    /\ store.handlers[h].pc = "replan"
    /\ \E outcome \in ReplanOutcomes :
          store' = [store EXCEPT
             !.handlers[h] =
                 IF outcome = 200
                 THEN [@ EXCEPT !.pc = "save",
                                !.result =
                                    Replanned(store.handlers[h].itinerary,
                                              h)]
                 ELSE [@ EXCEPT !.pc = "failed", !.status = outcome]]

\* "Store updated itinerary in Redis": save_itinerary up to its await of
\* hset
InjectSave(h) ==
    /\ store.handlers[h].pc = "save"
    /\ store' = [store EXCEPT
          !.current = store.handlers[h].result,
          !.handlers[h].pc = "expire",
          !.saved = Append(@, store.handlers[h].result.version),
          !.undoOf = store.handlers[h].itinerary]

\* save_itinerary: the await of expire on the current slot
Expire(h) ==
    /\ store.handlers[h].pc = "expire"
    /\ store' = [store EXCEPT
          !.handlers[h].pc = IF store.handlers[h].kind = "create"
                             THEN "save_legs" ELSE "emit"]

\* "Push result via Socket.IO", then the response
InjectEmit(h) ==
    /\ store.handlers[h].kind = "inject"
    /\ store.handlers[h].pc = "emit"
    /\ store' = [store EXCEPT
          !.handlers[h] = [@ EXCEPT !.pc = "done", !.status = 200]]

\* undo_itinerary up to the await of hget on the previous slot; 404 when empty
UndoGetPrev(h) ==
    /\ store.handlers[h].pc = "get_prev"
    /\ store' = [store EXCEPT
          !.handlers[h] =
              IF store.previous = Nothing
              THEN [@ EXCEPT !.pc = "failed", !.status = 404]
              ELSE [@ EXCEPT !.pc = "get_current",
                             !.result = store.previous]]

\* current = await redis.get_itinerary(session_id)
UndoGetCurrent(h) ==
    /\ store.handlers[h].pc = "get_current"
    /\ store' = [store EXCEPT
          !.handlers[h] = [@ EXCEPT !.pc = "swap",
                                    !.itinerary = store.current]]

\* "Save current as the new prev before restoring"
UndoSwap(h) ==
    /\ store.handlers[h].pc = "swap"
    /\ store' = [store EXCEPT
          !.previous = IF store.handlers[h].itinerary # Nothing
                       THEN store.handlers[h].itinerary ELSE @,
          !.handlers[h].pc = "restore"]

\* "Restore previous": save_itinerary up to its await of hset
UndoRestore(h) ==
    /\ store.handlers[h].pc = "restore"
    /\ store' = [store EXCEPT
          !.current = store.handlers[h].result,
          !.handlers[h].pc = "expire",
          !.undone = Append(@, [restored |-> store.handlers[h].result,
                                expected |-> store.undoOf]),
          !.undoOf = Nothing]

\* "Push via Socket.IO", then the response
UndoEmit(h) ==
    /\ store.handlers[h].kind = "undo"
    /\ store.handlers[h].pc = "emit"
    /\ store' = [store EXCEPT
          !.handlers[h] = [@ EXCEPT !.pc = "done", !.status = 200]]

\* create_itinerary, "Store in Redis": save_itinerary up to its await of
\* hset; the previous slot is not written
CreateSave(h) ==
    /\ store.handlers[h].pc = "create"
    /\ store' = [store EXCEPT
          !.current = CreatedItinerary,
          !.handlers[h].pc = "expire",
          !.undoOf = Nothing]

\* create_itinerary: save_all_legs, then the response
CreateSaveLegs(h) ==
    /\ store.handlers[h].pc = "save_legs"
    /\ store' = [store EXCEPT
          !.handlers[h] = [@ EXCEPT !.pc = "done", !.status = 200]]

\* clear_session up to its await of delete on the current slot; the
\* previous slot is not among the keys it deletes
ClearDelete(h) ==
    /\ store.handlers[h].pc = "delete"
    /\ store' = [store EXCEPT
          !.current = Nothing,
          !.handlers[h].pc = "delete_rest",
          !.undoOf = Nothing]

\* clear_session: the other keys of the session, then the return
ClearRest(h) ==
    /\ store.handlers[h].pc = "delete_rest"
    /\ store' = [store EXCEPT !.handlers[h].pc = "done"]

\* a handler runs from one await to the next
HandlerStep ==
    /\ pc = "store"
    /\ \E h \in DOMAIN store.handlers :
          \/ InjectGet(h)
          \/ InjectSavePrev(h)
          \/ InjectReplan(h)
          \/ InjectSave(h)
          \/ Expire(h)
          \/ InjectEmit(h)
          \/ UndoGetPrev(h)
          \/ UndoGetCurrent(h)
          \/ UndoSwap(h)
          \/ UndoRestore(h)
          \/ UndoEmit(h)
          \/ CreateSave(h)
          \/ CreateSaveLegs(h)
          \/ ClearDelete(h)
          \/ ClearRest(h)
    /\ UNCHANGED <<pipelineVars, call, fan, friction, earlier>>

StoreNext ==
    \/ Arrive
    \/ HandlerStep

StoreSpec == StoreInit /\ [][StoreNext]_vars

-----------------------------------------------------------------------------
(* drop_lowest_priority called repeatedly on a routing set *)

\* stops of the routing set drop_lowest_priority starts from
MaxDropStops == 5

\* what was fetched for the pair of stops at positions p and q of the
\* itinerary: a value of its own for every ordered pair
Fetched(p, q, base) == IF p = q THEN 0 ELSE base + 10 * p + q

\* the matrices as fetched for n stops, base telling cost and time apart
FetchedMatrix(n, base) ==
    [a \in 1..n |-> [b \in 1..n |-> Fetched(a, b, base)]]

DropInit ==
    /\ Idle("drop")
    /\ fan = NoFanOut
    /\ friction = NoProcess
    /\ store = NoStore
    /\ earlier = NoResult
    /\ \E n \in 1..MaxDropStops :
          \E prios \in [1..n -> {"MUST_VISIT", "NICE_TO_HAVE"}] :
             call = [phase |-> "dropping",
                     itStops |-> [k \in 1..n |->
                                     Stop(StopId(k), prios[k], "PENDING", "")],
                     stops |-> [k \in 1..n |-> k],
                     cost_matrix |-> FetchedMatrix(n, 100),
                     time_matrix |-> FetchedMatrix(n, 200),
                     calls |-> 0,
                     before |-> <<>>,
                     dropped |-> 0]

\* drop_lowest_priority is called on what the previous call returned
DropStep ==
    /\ pc = "drop"
    /\ call.calls = 0 \/ call.dropped # 0
    /\ LET d == drop_lowest_priority(call.itStops, call.stops,
                                     call.cost_matrix, call.time_matrix)
       IN  call' = [call EXCEPT
                      !.itStops = d.itStops,
                      !.stops = d.stops,
                      !.cost_matrix = d.cost_matrix,
                      !.time_matrix = d.time_matrix,
                      !.calls = @ + 1,
                      !.before = call.stops,
                      !.dropped = d.dropped]
    /\ UNCHANGED <<pipelineVars, fan, friction, store, earlier>>

DropSpec == DropInit /\ [][DropStep]_vars

-----------------------------------------------------------------------------
(* Properties *)

Out == result.itinerary

\* the request returned a result through the seven stages
ViaPipeline == pc = "done" /\ ~IsDemoBypass(input0, event)

\* the request returned the hard-coded demo result
ViaDemo == pc = "done" /\ IsDemoBypass(input0, event)

LegCosts(legs) == SumSeq([k \in 1..Len(legs) |-> legs[k].costCents])

\* C1 -- Budget preservation: every result of the pipeline (not the demo
\* bypass) has legs whose costCents sum to at most user.budgetCents, also
\* when the input was the output of an earlier replan.
C1_BudgetPreserved ==
    ViaPipeline => LegCosts(Out.legs) <= Out.user.budgetCents

\* a second replan of a chain returned legs that cost money
C1_Witness ==
    /\ ViaPipeline
    /\ replans = 2
    /\ input0.version = 2
    /\ LegCosts(Out.legs) > 0

\* C2 -- Deadline preservation: every result of the pipeline whose
\* returnDeadline parses has projectedETA <= returnDeadline.
C2_DeadlinePreserved ==
    (ViaPipeline /\ Out.user.returnDeadline.parse = "ok")
        => Out.projectedETA.ticks <= Out.user.returnDeadline.ticks

MustDroppedByLoop ==
    \E p \in Range(loopDropped) : input0.stops[p].priority = "MUST_VISIT"

\* C3 as claimed -- if the drop loop dropped a MUST_VISIT stop, every
\* NICE_TO_HAVE stop of the input is DROPPED in the output.
C3_AllNiceDropped ==
    (ViaPipeline /\ MustDroppedByLoop)
        => \A k \in 1..Len(input0.stops) :
              input0.stops[k].priority = "NICE_TO_HAVE"
                  => Out.stops[k].status = "DROPPED"

\* C3 as amended -- if the drop loop dropped a MUST_VISIT stop, every
\* NICE_TO_HAVE stop that was in the routing set at a position other than
\* the first is DROPPED in the output.
C3_RoutedNiceDropped ==
    (ViaPipeline /\ MustDroppedByLoop)
        => \A i \in 2..Len(activeIn) :
              input0.stops[activeIn[i]].priority = "NICE_TO_HAVE"
                  => Out.stops[activeIn[i]].status = "DROPPED"

\* a result in which the loop dropped a MUST_VISIT stop after a routed
\* NICE_TO_HAVE stop
C3_Witness ==
    /\ ViaPipeline
    /\ MustDroppedByLoop
    /\ \E i \in 2..Len(activeIn) :
          /\ input0.stops[activeIn[i]].priority = "NICE_TO_HAVE"
          /\ activeIn[i] \in Range(loopDropped)

\* C4 as claimed -- every stop that is DROPPED in a result has a non-empty
\* dropReason, whatever the input.
C4_EveryDroppedHasReason ==
    pc = "done"
        => \A k \in 1..Len(Out.stops) :
              Out.stops[k].status = "DROPPED" => Out.stops[k].dropReason # ""

\* C4 as amended -- every stop that is DROPPED in a result and was not
\* already DROPPED in the input has a non-empty dropReason; a stop that
\* came in DROPPED keeps the dropReason it came with, empty or not, except
\* rooftop-bar in a result of the demo bypass, which has the bypass's fixed
\* dropReason.
C4_NewlyDroppedHasReason ==
    pc = "done"
        => \A k \in 1..Len(Out.stops) :
              /\ (/\ Out.stops[k].status = "DROPPED"
                  /\ input0.stops[k].status # "DROPPED")
                     => Out.stops[k].dropReason # ""
              /\ input0.stops[k].status = "DROPPED"
                     => IF ViaDemo /\ input0.stops[k].id = "rooftop-bar"
                        THEN Out.stops[k].dropReason = DemoDropReason
                        ELSE Out.stops[k].dropReason
                                = input0.stops[k].dropReason

\* a result with a stop dropped by step 1, a stop dropped by the loop and a
\* stop that came in DROPPED without a reason
C4_Witness ==
    /\ ViaPipeline
    /\ event.type = "VENUE_CLOSED"
    /\ \E k \in 1..Len(Out.stops) :
          /\ Out.stops[k].dropReason = VenueClosedReason(event)
          /\ input0.stops[k].status = "PENDING"
    /\ Len(loopDropped) > 0
    /\ \E k \in 1..Len(Out.stops) :
          input0.stops[k].status = "DROPPED" /\ input0.stops[k].dropReason = ""

\* C5 -- Version monotonicity: every result, of the pipeline or of the demo
\* bypass, has version = input version + 1 and meta.version equal to it, so
\* the k-th result of a chain started at version 1 has version 1 + k.
C5_VersionBumped ==
    pc = "done"
        => /\ Out.version = input0.version + 1
           /\ result.meta.version = Out.version
           /\ Out.version = 1 + replans

\* a pipeline result resubmitted and answered by the demo bypass
C5_Witness ==
    /\ ViaDemo
    /\ replans = 2
    /\ Out.version = 3
    /\ input0.status = "REPLANNING"

\* C6 -- every result carries an itinerary with status REPLANNING, on the
\* demo bypass too.
C6_StatusReplanning == pc = "done" => Out.status = "REPLANNING"

InInput(leg) ==
    \E k \in 1..Len(input0.legs) :
        /\ input0.legs[k].fromStopId = leg.fromStopId
        /\ input0.legs[k].toStopId = leg.toStopId

SameInInput(leg) ==
    \E k \in 1..Len(input0.legs) :
        /\ input0.legs[k].fromStopId = leg.fromStopId
        /\ input0.legs[k].toStopId = leg.toStopId
        /\ input0.legs[k].mode = leg.mode
        /\ input0.legs[k].costCents = leg.costCents
        /\ input0.legs[k].durationSec = leg.durationSec

\* C7 -- Diff coverage: every output leg of a pipeline result is in newLegs
\* only (endpoints absent from the input), in changedLegs only (endpoints
\* present, mode, cost or duration differ) or in neither (present and
\* equal); the two lists hold output legs only.
C7_DiffCoverage ==
    ViaPipeline
        => /\ \A i \in 1..Len(Out.legs) :
                LET leg == Out.legs[i]
                    isNew == leg \in Range(result.diff.newLegs)
                    isChanged == leg \in Range(result.diff.changedLegs)
                IN  /\ ~InInput(leg) => (isNew /\ ~isChanged)
                    /\ (InInput(leg) /\ ~SameInInput(leg))
                          => (isChanged /\ ~isNew)
                    /\ SameInInput(leg) => (~isNew /\ ~isChanged)
           /\ Range(result.diff.newLegs) \cup Range(result.diff.changedLegs)
                 \subseteq Range(Out.legs)

\* a result with a new leg, a changed leg and an unchanged leg
C7_Witness ==
    /\ ViaPipeline
    /\ result.diff.newLegs # <<>>
    /\ result.diff.changedLegs # <<>>
    /\ \E i \in 1..Len(Out.legs) : SameInInput(Out.legs[i])

\* C8 -- Conservation of stops: a result has the input's stops, same ids in
\* the same order; a stop the loop removed from routing is kept as DROPPED.
C8_StopsConserved ==
    pc = "done"
        => /\ Len(Out.stops) = Len(input0.stops)
           /\ \A k \in 1..Len(input0.stops) :
                 Out.stops[k].id = input0.stops[k].id
           /\ \A p \in Range(loopDropped) : Out.stops[p].status = "DROPPED"

\* a pipeline result after the loop dropped two stops
C8_Witness ==
    /\ ViaPipeline
    /\ Len(loopDropped) = 2
    /\ Len(Out.stops) = 4

\* C9 -- the request's itinerary is the same value after the call, returned
\* or failed, as before it.
C9_InputNotMutated ==
    pc \in {"done", "failed"} => req = input0

\* a call returned after step 1 and the loop both changed the working copy
C9_Witness ==
    /\ pc = "done"
    /\ Len(loopDropped) > 0
    /\ \E k \in 1..Len(itin.legs) : itin.legs[k] # input0.legs[k]
    /\ \E k \in 1..Len(itin.stops) : itin.stops[k] # input0.stops[k]

NeedTwoStops == "Need at least 2 active stops to build an itinerary."

\* C10 -- Insufficient stops: with fewer than two PENDING stops after step 1
\* the request fails with the 422 "need two active stops" error, without a
\* route query or a solver run and without a result; with two or more that
\* error is not raised.
C10_InsufficientStops ==
    /\ pendingAfter1 \in {0, 1}
          => /\ pc \in {"step2", "failed"}
             /\ queries = 0
             /\ solverRuns = 0
             /\ pc = "failed" => result = HttpError(422, NeedTwoStops)
    /\ (pendingAfter1 >= 2 /\ pc = "failed") => result.detail # NeedTwoStops

\* scenario 6: two PENDING stops came in, VENUE_CLOSED left one, 422
C10_Witness ==
    /\ pc = "failed"
    /\ pendingAfter1 = 1
    /\ Len(ActiveStops(input0)) = 2
    /\ event.type = "VENUE_CLOSED"

NoRouteDetail ==
    "Unable to find any feasible route even after dropping all droppable stops."

\* C11 -- The drop loop terminates: for n active stops it runs at most n
\* rounds; a round that stays in the loop has dropped exactly one stop; when
\* the loop ends without a route both solvers have been tried on every
\* routing-set size from n down to 2, and the request fails with the 422
\* "no feasible route" error instead of returning a result; that error is
\* raised only when the loop ended without a route.
C11_DropLoopTerminates ==
    /\ iteration <= Len(activeIn)
    /\ pc \in {"loop", "afterloop"}
          => Len(stops_to_route) + Len(loopDropped) = Len(activeIn)
    /\ pc = "loop" => iteration = Len(loopDropped)
    /\ (pc = "afterloop" /\ route_indices = <<>>)
          => /\ Len(stops_to_route) = 1
             /\ solverRuns = 2 * (Len(activeIn) - 1)
    /\ ViaPipeline => route_indices # <<>>
    /\ (pc = "failed" /\ activeIn # <<>> /\ route_indices = <<>>)
          => /\ result = HttpError(422, NoRouteDetail)
             /\ Len(loopDropped) = Len(activeIn) - 1
    /\ (pc = "failed" /\ result = HttpError(422, NoRouteDetail))
          => route_indices = <<>>

\* a request of at least three active stops failed after the loop had
\* dropped all but the first
C11_Witness ==
    /\ pc = "failed"
    /\ result = HttpError(422, NoRouteDetail)
    /\ Len(activeIn) >= 3
    /\ iteration = Len(activeIn) - 1
    /\ Len(loopDropped) = Len(activeIn) - 1

\* C12 -- Solver fallback tag: a successful replan whose route came from
\* greedy_fallback has meta.solver "GREEDY"; meta.solver is "OR_TOOLS" only
\* when the route came from solve_vrptw.
C12_SolverTag ==
    ViaPipeline
        => /\ routeBy = "greedy_fallback" => result.meta.solver = "GREEDY"
           /\ result.meta.solver = "OR_TOOLS" => routeBy = "solve_vrptw"

OutdoorModes == {"WALKING", "EBIKE"}

\* C13 -- Weather: after a WEATHER disruption of severity MAJOR or CRITICAL
\* no leg of a successful result has mode WALKING or EBIKE, whatever
\* user.preferredModes is.
C13_NoOutdoorLegs ==
    (/\ ViaPipeline
     /\ event.type = "WEATHER"
     /\ event.severity \in {"MAJOR", "CRITICAL"})
        => \A i \in 1..Len(Out.legs) : Out.legs[i].mode \notin OutdoorModes

\* C14 -- no output leg of a successful replan has the endpoints and mode of
\* a leg of the working copy that step 1 marked available = false.
C14_UnavailableLegNotRouted ==
    ViaPipeline
        => \A i \in 1..Len(Out.legs) : \A k \in 1..Len(itin.legs) :
              (/\ itin.legs[k].fromStopId = Out.legs[i].fromStopId
               /\ itin.legs[k].toStopId = Out.legs[i].toStopId
               /\ itin.legs[k].mode = Out.legs[i].mode)
                  => itin.legs[k].available

\* the stop at position k is dropped as a closed venue in the result
VenueDroppedAt(k) ==
    /\ Out.stops[k].status = "DROPPED"
    /\ Out.stops[k].dropReason = VenueClosedReason(event)
    /\ \E d \in 1..Len(result.diff.droppedStops) :
          result.diff.droppedStops[d].id = event.affectedStopId
    /\ \A i \in 1..Len(Out.legs) :
          /\ Out.legs[i].fromStopId # event.affectedStopId
          /\ Out.legs[i].toStopId # event.affectedStopId

\* C15 as claimed -- after VENUE_CLOSED naming a stop of the itinerary, a
\* successful result has that stop DROPPED with the venue-closed reason, in
\* diff.droppedStops and on no output leg, whatever its status was.
C15_VenueClosedDropped ==
    (ViaPipeline /\ event.type = "VENUE_CLOSED")
        => \A k \in 1..Len(input0.stops) :
              input0.stops[k].id = event.affectedStopId => VenueDroppedAt(k)

\* C15 as amended -- after VENUE_CLOSED naming a stop that is PENDING in the
\* input, a successful result has that stop DROPPED with the venue-closed
\* reason, in diff.droppedStops and on no output leg.
C15_PendingVenueDropped ==
    (ViaPipeline /\ event.type = "VENUE_CLOSED")
        => \A k \in 1..Len(input0.stops) :
              (/\ input0.stops[k].id = event.affectedStopId
               /\ input0.stops[k].status = "PENDING")
                  => VenueDroppedAt(k)

\* a result after the venue of a PENDING stop between two routed stops closed
C15_Witness ==
    /\ ViaPipeline
    /\ event.type = "VENUE_CLOSED"
    /\ \E k \in 2..Len(input0.stops) :
          /\ input0.stops[k].id = event.affectedStopId
          /\ input0.stops[k].status = "PENDING"
          /\ input0.stops[k - 1].status = "PENDING"
    /\ Len(Out.legs) >= 1

\* C16 -- the first stop of the itinerary is not DROPPED in a replan output
\* (for an input whose first stop is not DROPPED).
C16_FirstStopKept ==
    (pc = "done" /\ input0.stops[1].status # "DROPPED")
        => Out.stops[1].status # "DROPPED"

\* C26 -- Stage 1 for TRANSIT_DELAY: every leg of the working copy whose
\* mode is in affectedModes has its durationSec increased by delayMinutes
\* times 60 seconds; the other legs keep their durationSec.
C26_DelayLengthensLegs ==
    (pc # "start" /\ event.type = "TRANSIT_DELAY")
        => /\ Len(itin.legs) = Len(input0.legs)
           /\ \A k \in DOMAIN itin.legs :
                 itin.legs[k].durationSec
                     = input0.legs[k].durationSec
                         + (IF input0.legs[k].mode \in event.affectedModes
                            THEN event.delayMinutes * SecPerMinute
                            ELSE 0)

\* C27 -- diff.droppedStops of a pipeline result lists exactly the stops
\* this replan dropped (by VENUE_CLOSED in stage 1 or by the stage-5 loop),
\* each once; a stop that was DROPPED in the input is not listed; and
\* meta.stopsDropped is their number.
C27_DroppedStopsExact ==
    ViaPipeline
        => LET listed == result.diff.droppedStops
               newly == {k \in DOMAIN Out.stops :
                            /\ Out.stops[k].status = "DROPPED"
                            /\ input0.stops[k].status # "DROPPED"}
           IN  /\ {listed[i].id : i \in DOMAIN listed}
                     = {Out.stops[k].id : k \in newly}
               /\ Len(listed) = Cardinality(newly)
               /\ result.meta.stopsDropped = Cardinality(newly)

\* place (Python index) a position of itin.stops had in the fan-out's list
FetchedAt(position) ==
    (CHOOSE p \in DOMAIN activeIn : activeIn[p] = position) - 1

\* C29 -- Stage 6 builds each output leg from the fan-out result of its own
\* pair: costCents, durationSec, mode and polyline of the leg from stop A to
\* stop B are what the fan-out returned for the ordered pair (A, B), also
\* after stage 5 dropped stops.
C29_LegsFromOwnPair ==
    ViaPipeline
        => \A k \in DOMAIN Out.legs :
              LET a == FetchedAt(stops_to_route[route_indices[k] + 1])
                  b == FetchedAt(stops_to_route[route_indices[k + 1] + 1])
                  own == leg_details[<<a, b>>]
              IN  /\ Out.legs[k].costCents = own.costCents
                  /\ Out.legs[k].durationSec = own.durationSec
                  /\ Out.legs[k].mode = own.mode
                  /\ Out.legs[k].polyline = own.polyline

\* positions of the stops that are PENDING in the returned itinerary
PendingOut == {p \in DOMAIN Out.stops : Out.stops[p].status = "PENDING"}

\* times the path of the returned legs is at a stop
VisitsOf(id) ==
    Cardinality({k \in DOMAIN Out.legs : Out.legs[k].toStopId = id})
        + (IF Out.legs # <<>> /\ Out.legs[1].fromStopId = id THEN 1 ELSE 0)

\* C30 -- In every successful pipeline result the output legs form one open
\* path over the routed stops: the first leg starts at the first PENDING
\* stop, each leg ends where the next one starts, every stop that is PENDING
\* in the output is visited exactly once, there are (PENDING stops - 1)
\* legs, and no leg ends at the first stop.
C30_LegsFormOpenPath ==
    ViaPipeline
        => LET first == CHOOSE p \in PendingOut : \A q \in PendingOut : p <= q
           IN  /\ PendingOut # {}
               /\ Len(Out.legs) = Cardinality(PendingOut) - 1
               /\ Out.legs # <<>>
                     => Out.legs[1].fromStopId = Out.stops[first].id
               /\ \A k \in 1..(Len(Out.legs) - 1) :
                     Out.legs[k].toStopId = Out.legs[k + 1].fromStopId
               /\ \A p \in PendingOut : VisitsOf(Out.stops[p].id) = 1
               /\ \A k \in DOMAIN Out.legs :
                     Out.legs[k].toStopId # Out.stops[first].id

\* C31 -- In every successful replan result, full pipeline or demo bypass,
\* the fromStopId and toStopId of every output leg are ids of stops of the
\* output itinerary, and neither endpoint has status DROPPED.
C31_LegEndpointsActive ==
    pc = "done"
        => \A k \in DOMAIN Out.legs :
              \A id \in {Out.legs[k].fromStopId, Out.legs[k].toStopId} :
                 /\ \E p \in DOMAIN Out.stops : Out.stops[p].id = id
                 /\ \A p \in DOMAIN Out.stops :
                       Out.stops[p].id = id => Out.stops[p].status # "DROPPED"

\* the visiting orders of the current routing set that start at index 0
RoutingOrders ==
    LET n == Len(stops_to_route)
    IN  {p \in [1..n -> Nodes(n)] : p[1] = 0 /\ Range(p) = Nodes(n)}

OrderCost(p, k) == SumSeq([m \in 1..(k - 1) |-> At(c_mx, p[m], p[m + 1])])

OrderTime(p, k) == SumSeq([m \in 1..(k - 1) |-> At(t_mx, p[m], p[m + 1])])

\* the open path of order p keeps cost and time within budget and deadline
OpenPathFits(p) ==
    /\ OrderCost(p, Len(p)) <= itin.user.budgetCents
    /\ OrderTime(p, Len(p)) <= deadline_sec

\* every step of order p goes to the admissible unvisited index of least
\* time, lowest index on ties
NearestFirst(p) ==
    \A k \in 1..(Len(p) - 1) :
        LET adm == {j \in Nodes(Len(p)) \ {p[m] : m \in 1..k} :
                      /\ OrderCost(p, k) + At(c_mx, p[k], j)
                            <= itin.user.budgetCents
                      /\ OrderTime(p, k) + At(t_mx, p[k], j) <= deadline_sec}
        IN  /\ p[k + 1] \in adm
            /\ \A j \in adm :
                  \/ At(t_mx, p[k], p[k + 1]) < At(t_mx, p[k], j)
                  \/ /\ At(t_mx, p[k], p[k + 1]) = At(t_mx, p[k], j)
                     /\ p[k + 1] <= j

\* order p with the edge back to index 0 keeps cost and time within bounds
TourFits(p) ==
    /\ OrderCost(p, Len(p)) + At(c_mx, p[Len(p)], 0) <= itin.user.budgetCents
    /\ OrderTime(p, Len(p)) + At(t_mx, p[Len(p)], 0) <= deadline_sec

\* the step-5 loop drops a stop in this step
LoopDrops == pc = "loop" /\ loopDropped' # loopDropped

\* C32 as claimed -- A stop is dropped by the stage-5 loop only when the
\* constraints cannot be satisfied with it included: no visiting order of
\* the current routing set that starts at index 0 and visits every stop once
\* has total cost <= budget and total time <= deadline budget.
C32_DropOnlyWhenInfeasible ==
    [][LoopDrops => ~\E p \in RoutingOrders : OpenPathFits(p)]_vars

\* C32 as amended -- A stop is dropped by the stage-5 loop only when the
\* nearest-first tour does not fit: no visiting order of the current routing
\* set that starts at index 0, goes at every step to the admissible unvisited
\* stop of least time and then back to index 0 has total cost <= budget and
\* total time <= deadline budget.
C32_DropOnlyWhenNoGreedyTour ==
    [][LoopDrops => ~\E p \in RoutingOrders : NearestFirst(p) /\ TourFits(p)]_vars

\* after one drop the routing set has an open path that fits and no
\* nearest-first tour that does: the loop is about to drop again
C32_Witness ==
    /\ pc = "loop"
    /\ LoopRuns
    /\ Len(loopDropped) = 1
    /\ \E p \in RoutingOrders : OpenPathFits(p)
    /\ ~\E p \in RoutingOrders : NearestFirst(p) /\ TourFits(p)

\* C33 -- Deadline budget: for every returnDeadline value the replan computes
\* a deadline budget of at least 1 second, max(1, deadline - now) in whole
\* seconds when the value can be read as an instant and 3600 seconds
\* otherwise; no returnDeadline value (malformed, without time zone, or in
\* the past) makes the replan fail with an internal error: a request that
\* fails before a route is found does not fail with status 500.
C33_DeadlineBudget ==
    LET deadline == input0.user.returnDeadline
    IN  /\ (pc \in {"loop", "afterloop"} \/ ViaPipeline)
              => /\ deadline_sec >= 1
                 /\ deadline.parse \in {"ok", "naive"}
                       => deadline_sec
                             = Max2(1, TruncDiv(deadline.ticks - nowDeadline,
                                                TicksPerSec))
                 /\ deadline.parse = "bad"
                       => deadline_sec = FallbackDeadlineSec
        /\ (pc = "failed" /\ route_indices = <<>>) => result.status # 500

\* every off-diagonal entry of the current time matrix is strictly positive
AllTimesPositive ==
    \A a, b \in DOMAIN t_mx : a # b => t_mx[a][b] > 0

\* C36 -- For n >= 2 stops and a time matrix whose off-diagonal entries are
\* all strictly positive, as the offline fallback always produces,
\* solve_vrptw never returns a route, so in every such successful replan the
\* route comes from greedy_fallback.
C36_PrimaryNeverOnPositiveTimes ==
    /\ (pc = "loop" /\ LoopRuns /\ AllTimesPositive)
          => PrimaryOutcomes = {<<>>}
    /\ (pc \in {"afterloop", "done"} /\ route_indices # <<>>
           /\ ~IsDemoBypass(input0, event) /\ AllTimesPositive)
          => routeBy = "greedy_fallback"

\* a replan over three stops with fallback durations only returned a route
C36_Witness ==
    /\ ViaPipeline
    /\ AllTimesPositive
    /\ Len(stops_to_route) >= 3
    /\ queries > 0
    /\ routeBy = "greedy_fallback"

\* what a replan may do to a stop: nothing to a DROPPED stop or its
\* dropReason, nothing to the status of a COMPLETED stop, and to a PENDING
\* stop nothing or the change to DROPPED
StatusStep(before, after) ==
    /\ after.id = before.id
    /\ before.status = "DROPPED"
          => after.status = "DROPPED" /\ after.dropReason = before.dropReason
    /\ before.status = "COMPLETED" => after.status = "COMPLETED"
    /\ after.status # before.status
          => before.status = "PENDING" /\ after.status = "DROPPED"

\* C37 as claimed -- Stop status is monotone across replans: over any
\* sequence of successful replans in which each output itinerary is the next
\* input, a DROPPED stop stays DROPPED with the same dropReason, a COMPLETED
\* stop stays COMPLETED, and the only status change is PENDING to DROPPED.
C37_StatusMonotone ==
    pc = "done"
        => /\ Len(Out.stops) = Len(input0.stops)
           /\ \A k \in DOMAIN input0.stops :
                 StatusStep(input0.stops[k], Out.stops[k])

\* C37 as amended -- Stop status is monotone across replans through the
\* seven stages: over any sequence of successful replans that do not take
\* the demo bypass, each output being the next input, a DROPPED stop stays
\* DROPPED with the same dropReason, a COMPLETED stop stays COMPLETED, and
\* the only status change is PENDING to DROPPED.
C37_PipelineStatusMonotone ==
    ViaPipeline
        => /\ Len(Out.stops) = Len(input0.stops)
           /\ \A k \in DOMAIN input0.stops :
                 StatusStep(input0.stops[k], Out.stops[k])

\* the second replan of a chain: its input has a stop the first replan
\* dropped, and it drops a further stop
C37_Witness ==
    /\ ViaPipeline
    /\ replans = 2
    /\ \E k \in DOMAIN input0.stops :
          /\ input0.stops[k].status = "DROPPED"
          /\ input0.stops[k].dropReason # ""
    /\ \E k \in DOMAIN input0.stops :
          /\ input0.stops[k].status = "PENDING"
          /\ Out.stops[k].status = "DROPPED"

-----------------------------------------------------------------------------
(* Properties of the solvers, under SolverSpec *)

IsPermutationFrom(route, n, start_index) ==
    /\ Len(route) = n
    /\ route[1] = start_index
    /\ Range(route) = Nodes(n)

\* C17 -- Primary solver contract: a route returned by solve_vrptw for
\* n >= 2 stops is a permutation of 0..n-1 that begins at start_index, for
\* every non-negative cost and time matrix, zero times included.
C17_PrimaryPermutation ==
    (pc = "solver" /\ call.primaryRan /\ call.primary # <<>>)
        => IsPermutationFrom(call.primary, call.n, call.start_index)

\* the orders that begin at start_index, as sequences
OrdersOf ==
    [n \in 2..Max2(MaxSolverStops, 2) |->
        {p \in [1..n -> Nodes(n)] : Range(p) = Nodes(n)}]

PathCost(p, k) ==
    SumSeq([m \in 1..(k - 1) |-> At(call.cost_matrix, p[m], p[m + 1])])

PathTime(p, k) ==
    SumSeq([m \in 1..(k - 1) |-> At(call.time_matrix, p[m], p[m + 1])])

\* at every step of order p the next index is, among the unvisited indices
\* that keep cost within the budget and time within the deadline, the one of
\* least time from the current index (lowest index on ties)
NearestAdmissibleOrder(p) ==
    /\ p[1] = call.start_index
    /\ \A k \in 1..(call.n - 1) :
          LET adm == {j \in Nodes(call.n) \ {p[m] : m \in 1..k} :
                        /\ PathCost(p, k) + At(call.cost_matrix, p[k], j)
                              <= call.budget_cents
                        /\ PathTime(p, k) + At(call.time_matrix, p[k], j)
                              <= call.deadline_seconds}
          IN  /\ p[k + 1] \in adm
              /\ \A j \in adm :
                    \/ At(call.time_matrix, p[k], p[k + 1])
                          < At(call.time_matrix, p[k], j)
                    \/ /\ At(call.time_matrix, p[k], p[k + 1])
                             = At(call.time_matrix, p[k], j)
                       /\ p[k + 1] <= j

\* the edge from the last index of p back to the start fits as well
ClosureFits(p) ==
    /\ PathCost(p, call.n)
          + At(call.cost_matrix, p[call.n], call.start_index)
          <= call.budget_cents
    /\ PathTime(p, call.n)
          + At(call.time_matrix, p[call.n], call.start_index)
          <= call.deadline_seconds

\* C18 as claimed -- greedy_fallback returns the open path: it returns the
\* route whenever at every step some unvisited index is admissible, and
\* infeasible only when at some step none is; the edge back to the start
\* need not fit.
C18_GreedyOpenPath ==
    (pc = "solver" /\ call.greedyRan)
        => /\ \A p \in OrdersOf[call.n] :
                 NearestAdmissibleOrder(p) => call.greedy = p
           /\ call.greedy = <<>>
                 => ~\E p \in OrdersOf[call.n] : NearestAdmissibleOrder(p)

\* C18 as amended -- greedy_fallback returns the route exactly when at every
\* step some unvisited index is admissible and, after the last index, the
\* edge back to the start keeps cost within the budget and time within the
\* deadline; otherwise it returns infeasible.
C18_GreedyClosedPath ==
    (pc = "solver" /\ call.greedyRan)
        => /\ \A p \in OrdersOf[call.n] :
                 (NearestAdmissibleOrder(p) /\ ClosureFits(p))
                     => call.greedy = p
           /\ call.greedy # <<>>
                 => /\ IsPermutationFrom(call.greedy, call.n,
                                         call.start_index)
                    /\ NearestAdmissibleOrder(call.greedy)
                    /\ ClosureFits(call.greedy)

\* greedy_fallback returned infeasible on three stops although every step of
\* the walk had an admissible extension: only the way back did not fit
C18_Witness ==
    /\ pc = "solver"
    /\ call.greedyRan
    /\ call.n >= 3
    /\ call.greedy = <<>>
    /\ \E p \in OrdersOf[call.n] :
          NearestAdmissibleOrder(p) /\ ~ClosureFits(p)

-----------------------------------------------------------------------------
(* Properties of the fan-out, under FanOutSpec *)

FanStops == Len(fan.active_ids)

\* the task created for the query from i to j
TaskOf(i, j) ==
    CHOOSE k \in DOMAIN fan.results : QueryPair(FanStops, k) = <<i, j>>

\* C19 -- Matrix fan-out completeness: one query per ordered pair i # j;
\* fetch_alternatives returns only when all n*(n-1) have completed or fallen
\* back; then the diagonals are zero and entry (i, j) of cost, time and the
\* detail map holds the result of the query from i to j, whatever the order
\* of completion.
C19_FanOutComplete ==
    pc = "fanout"
        => /\ Len(fan.results) = FanStops * (FanStops - 1)
           /\ {QueryPair(FanStops, k) : k \in DOMAIN fan.results}
                 = OrderedPairs(FanStops)
           /\ fan.phase = "returned"
                 => /\ \A k \in DOMAIN fan.results : fan.results[k] # Pending
                    /\ \A i \in Nodes(FanStops) :
                          /\ At(fan.cost_matrix, i, i) = 0
                          /\ At(fan.time_matrix, i, i) = 0
                    /\ DOMAIN fan.leg_details = OrderedPairs(FanStops)
                    /\ \A pr \in OrderedPairs(FanStops) :
                          LET res == fan.results[TaskOf(pr[1], pr[2])]
                          IN  /\ At(fan.cost_matrix, pr[1], pr[2])
                                    = res.costCents
                              /\ At(fan.time_matrix, pr[1], pr[2])
                                    = res.durationSec
                              /\ fan.leg_details[pr]
                                    = [costCents |-> res.costCents,
                                       durationSec |-> res.durationSec,
                                       mode |-> fan.mode]

\* a fan-out over three stops returned after the query from 2 to 0 was
\* answered and the one from 0 to 2 was not
C19_Witness ==
    /\ pc = "fanout"
    /\ fan.phase = "returned"
    /\ FanStops = 3
    /\ At(fan.cost_matrix, 2, 0) = UpstreamAnswer(2, 0).costCents
    /\ At(fan.time_matrix, 0, 2) = MockMinDurationSec

\* C20 -- Transient upstream failure is never propagated: whichever queries
\* raise, time out or get a non-ok response, each of them yields the offline
\* estimate for its pair, every other pair keeps its own result, and the
\* fan-out still returns with all pairs filled.
C20_FailureIsolated ==
    (pc = "fanout" /\ fan.phase = "returned")
        => \A pr \in OrderedPairs(FanStops) :
              LET k == TaskOf(pr[1], pr[2])
                  expected ==
                      IF k \in fan.failed \/ ~AsksUpstream(fan.mode)
                      THEN _mock_leg_data(fan.active_ids[pr[1] + 1],
                                          fan.active_ids[pr[2] + 1], fan.mode)
                      ELSE UpstreamAnswer(pr[1], pr[2])
              IN  /\ At(fan.cost_matrix, pr[1], pr[2]) = expected.costCents
                  /\ At(fan.time_matrix, pr[1], pr[2]) = expected.durationSec

\* a fan-out returned after some queries failed and others were answered
C20_Witness ==
    /\ pc = "fanout"
    /\ fan.phase = "returned"
    /\ Cardinality(fan.failed) >= 2
    /\ \E k \in DOMAIN fan.results : k \notin fan.failed
    /\ AsksUpstream(fan.mode)

-----------------------------------------------------------------------------
(* Properties of the friction scorer, under FrictionSpec *)

\* C21 -- The choice between the trained model and the mock does not flip
\* within a process: after a call that used the mock every later call uses
\* the mock, and after a call that used the model every later call uses the
\* model.
C21_ChoiceNeverFlips ==
    pc = "friction"
        => \A i, j \in DOMAIN friction.used :
              i < j => friction.used[j].by = friction.used[i].by

-----------------------------------------------------------------------------
(* Properties of a repeated request, under RepeatSpec *)

\* C22 -- Fallback determinism: with the session store disabled and demo
\* mode on, the same itinerary and disruption posted twice give the same
\* result (status, itinerary, diff and meta), whatever the instants at which
\* the two requests are processed.
C22_RepeatGivesSameResult ==
    (/\ DEMO_MODE
     /\ store = NoStore
     /\ pc \in {"done", "failed"}
     /\ earlier # NoResult)
        => result = earlier

-----------------------------------------------------------------------------
(* Properties of the session store, under StoreSpec *)

\* C23 -- Undo restores the pre-replan itinerary: an undo that follows the
\* most recent successful injection makes the stored current itinerary the
\* one that was current just before that successful replan, also when
\* injections failed in between.
C23_UndoRestoresPreReplan ==
    pc = "store"
        => \A k \in DOMAIN store.undone :
              store.undone[k].expected # Nothing
                  => store.undone[k].restored = store.undone[k].expected

\* C24 -- Version strictly increases on every successful replan of a stored
\* session: under any interleaving of injections, after k successes the
\* stored current itinerary has the initial version plus k, and no two
\* successful injections store the same version.
C24_VersionCountsSuccesses ==
    (/\ pc = "store"
     /\ \A h \in DOMAIN store.handlers : store.handlers[h].kind = "inject")
        => /\ store.current.version
                 = CreatedItinerary.version + Len(store.saved)
           /\ \A i, j \in DOMAIN store.saved :
                 i # j => store.saved[i] # store.saved[j]

-----------------------------------------------------------------------------
(* Properties of drop_lowest_priority, under DropSpec *)

\* C28 -- Drop selection: drop_lowest_priority removes a NICE_TO_HAVE stop
\* whenever one is at routing positions 1..len-1, otherwise a MUST_VISIT
\* stop at those positions, and nothing when only position 0 is left; the
\* removed stop becomes DROPPED with the reason 'Removed to satisfy
\* budget/time constraints'; and after any number of drops entry [a][b] of
\* each matrix is what was fetched for the stops now at positions a and b.
C28_DropSelection ==
    (pc = "drop" /\ call.calls > 0)
        => LET before == call.before
               tail == {before[i] : i \in 2..Len(before)}
               d == call.dropped
           IN  /\ tail = {} => /\ d = 0
                               /\ call.stops = before
               /\ tail # {}
                     => /\ d \in tail
                        /\ (\E p \in tail :
                               call.itStops[p].priority = "NICE_TO_HAVE")
                              => call.itStops[d].priority = "NICE_TO_HAVE"
                        /\ call.itStops[d].status = "DROPPED"
                        /\ call.itStops[d].dropReason = DropReason
                        /\ call.stops = FilterSeq(before, Range(before) \ {d})
               /\ \A p \in Range(call.stops) :
                     call.itStops[p].status = "PENDING"
               /\ Len(call.cost_matrix) = Len(call.stops)
               /\ Len(call.time_matrix) = Len(call.stops)
               /\ \A a, b \in DOMAIN call.stops :
                     /\ Len(call.cost_matrix[a]) = Len(call.stops)
                     /\ Len(call.time_matrix[a]) = Len(call.stops)
                     /\ call.cost_matrix[a][b]
                           = Fetched(call.stops[a], call.stops[b], 100)
                     /\ call.time_matrix[a][b]
                           = Fetched(call.stops[a], call.stops[b], 200)

\* two drops from four stops: first the NICE_TO_HAVE stop in the middle, then
\* the last MUST_VISIT stop
C28_Witness ==
    /\ pc = "drop"
    /\ call.calls = 2
    /\ Len(call.itStops) = 4
    /\ call.itStops[3].priority = "NICE_TO_HAVE"
    /\ call.itStops[3].status = "DROPPED"
    /\ call.dropped = 4
    /\ call.stops = <<1, 2>>

-----------------------------------------------------------------------------
(* More properties of the solvers, under SolverSpec *)

\* C34 -- Whenever greedy_fallback returns a route for n stops, the route is
\* a permutation of 0..n-1 beginning at start_index, each next index is the
\* unvisited index of minimum time from the current one among those
\* admissible (lowest index on ties), and at every prefix of the route the
\* cumulative cost is <= budget_cents and the cumulative time is
\* <= deadline_seconds.
C34_GreedyRoute ==
    (pc = "solver" /\ call.greedyRan /\ call.greedy # <<>>)
        => /\ IsPermutationFrom(call.greedy, call.n, call.start_index)
           /\ NearestAdmissibleOrder(call.greedy)
           /\ \A k \in 1..call.n :
                 /\ PathCost(call.greedy, k) <= call.budget_cents
                 /\ PathTime(call.greedy, k) <= call.deadline_seconds

\* a route over four stops on which a tie was broken by the lower index and
\* a nearer stop was preferred to a lower index
C34_Witness ==
    /\ pc = "solver"
    /\ call.greedyRan
    /\ call.n = 4
    /\ call.greedy # <<>>
    /\ \E k \in 1..3 :
          \E j \in Nodes(4) \ {call.greedy[m] : m \in 1..(k + 1)} :
             /\ At(call.time_matrix, call.greedy[k], j)
                   = At(call.time_matrix, call.greedy[k], call.greedy[k + 1])
             /\ call.greedy[k + 1] < j
    /\ \E k \in 1..3 :
          \E j \in Nodes(4) \ {call.greedy[m] : m \in 1..(k + 1)} :
             /\ At(call.time_matrix, call.greedy[k], j)
                   > At(call.time_matrix, call.greedy[k], call.greedy[k + 1])
             /\ j < call.greedy[k + 1]

-----------------------------------------------------------------------------
(* Properties of friction scoring, under FrictionSpec *)

\* C35 -- Friction level mapping: the level is LOW for a score < 0.3, MEDIUM
\* for 0.3 <= score <= 0.7 and HIGH for a score > 0.7, and in every
\* predict_friction result the reported frictionLevel is the level of the
\* reported (rounded) frictionScore, which lies in [0, 1].
C35_LevelOfReportedScore ==
    pc = "friction"
        => \A k \in DOMAIN friction.used :
              LET reported == friction.used[k].frictionScore
              IN  /\ reported >= 0
                  /\ reported <= ScoreUnit
                  /\ friction.used[k].frictionLevel
                        = IF reported < 3000 THEN "LOW"
                          ELSE IF reported <= 7000 THEN "MEDIUM"
                          ELSE "HIGH"

-----------------------------------------------------------------------------
(* More properties of the session store, under StoreSpec *)

\* injections whose replan failed, every other call having ended before they
\* began and none having begun since
FailedInjections ==
    {h \in DOMAIN store.handlers :
        /\ store.handlers[h].kind = "inject"
        /\ store.handlers[h].pc = "failed"
        /\ store.handlers[h].status \in {422, 500}
        /\ store.handlers[h].before.alone
        /\ \A g \in DOMAIN store.handlers :
              g > h => store.handlers[g].pc \in FirstPositions}

\* C38 -- A disruption injection whose replan fails leaves the session's
\* stored itineraries unchanged: after inject_disruption ends with a 422 or
\* 500 error the current slot and the previous slot hold the values they
\* held before the call.
C38_FailedInjectionKeepsSlots ==
    pc = "store"
        => \A h \in FailedInjections :
              /\ store.current = store.handlers[h].before.current
              /\ store.previous = store.handlers[h].before.previous

====
